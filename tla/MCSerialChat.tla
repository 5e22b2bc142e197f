---------------------------- MODULE MCSerialChat ----------------------------
(* A small instance of SerialChat: two characters, buffers of two bytes.    *)
EXTENDS SerialChat

MCByte == {"a", "b"}
MCFoundDcb == [rate |-> "r0", parity |-> "MARK", flow |-> "RTSCTS"]
MCConfigs == {[rate |-> "r1", parity |-> "EVEN", flow |-> "RTSCTS"]}
\* One pattern that overlaps itself, two that overlap each other, one too
\* many for the list, none.
MCWaitLists == {<< <<"a", "b">> >>, << <<"a", "a", "b">>, <<"b">>, <<"a">> >>, <<>>}
=============================================================================
