---------------------------- MODULE XModemLine ----------------------------
(***************************************************************************)
(* The serial line between xymodem_send.c and xymodem_recv.c and the       *)
(* vocabulary both ends share (include/xmodem.h): frames travel on fwd, to *)
(* the receiver, and single control bytes on bwd, to the sender.  Each     *)
(* direction is a FIFO.  A fault strikes a message when it is put on the   *)
(* line, which nobody can observe before the message is read.              *)
(***************************************************************************)
EXTENDS Integers, Sequences

CONSTANTS
    Mode,       \* "XMODEM" (MODE_XMODEM, MODE_XMODEM_1K) or "YMODEM"
    FcsMode,    \* "CRC" or "CKS": what the receiver was initialised with
    NFiles,     \* files in the batch; XMODEM carries a single one
    NBlocks,    \* data blocks of every file
    SeqMod,     \* 256 in the code: the sequence number is one byte
    Faults      \* what the line may do to a message

ASSUME LineAssumption ==
    /\ Mode \in {"XMODEM", "YMODEM"}
    /\ FcsMode \in {"CRC", "CKS"}
    /\ NFiles \in Nat \ {0}
    /\ Mode = "XMODEM" => NFiles = 1
    /\ NBlocks \in Nat \ {0}
    /\ SeqMod \in Nat /\ SeqMod > 2
    /\ Faults \subseteq {"corrupt", "truncate", "behead", "lose",
                         "loseByte", "garble", "io"}

VARIABLES fwd, bwd
lineVars == <<fwd, bwd>>

Y == Mode = "YMODEM"

(***************************************************************************)
(* Block b of file f is <<f, b>>: block 0 is the YMODEM header, 1..NBlocks *)
(* are data and EotBlk stands for the EOT byte.  The null header that ends *)
(* a batch is the header of file NFiles + 1.  A frame carries its item to  *)
(* identify its payload; the code reads the sequence number only.          *)
(***************************************************************************)
EotBlk == NBlocks + 1
Items == (1 .. NFiles + 1) \X (0 .. EotBlk)
NullHeader == <<NFiles + 1, 0>>

\* The order in which the sender works through the items.
Before(i, j) == i[1] < j[1] \/ (i[1] = j[1] /\ i[2] < j[2])

Bytes == {"C", "NAK", "ACK", "CAN", "JUNK"}
Conditions == {"good", "bad", "short"}
Frames ==
    [kind : {"PKT", "EOT", "STRAY"}, seq : 0 .. SeqMod - 1, item : Items,
     cond : Conditions]
    \cup [kind : {"CAN"}]

(***************************************************************************)
(* What can become of a message on the line.  "bad" is a frame with        *)
(* altered bytes, which the sequence complement or the FCS gives away;     *)
(* "short" one that lost bytes after its first; STRAY one that lost its    *)
(* first byte, so that its body meets a receiver hunting for a header.     *)
(***************************************************************************)
FrameOutcomes(f) ==
    {<<f>>}
    \cup {<<[f EXCEPT !.cond = "bad"]>> : x \in Faults \cap {"corrupt"}}
    \cup {<<[f EXCEPT !.cond = "short"]>> : x \in Faults \cap {"truncate"}}
    \cup {<<[f EXCEPT !.kind = "STRAY"]>> : x \in Faults \cap {"behead"}}
    \cup {<<>> : x \in Faults \cap {"lose"}}

\* EOT is a single byte: it arrives, is lost or arrives as another byte,
\* which the receiver skips.
EotOutcomes(f) ==
    {<<f>>} \cup {<<>> : x \in Faults \cap {"lose", "corrupt"}}

ByteOutcomes(c) ==
    {<<c>>}
    \cup {<<>> : x \in Faults \cap {"loseByte"}}
    \cup {<<"JUNK">> : x \in Faults \cap {"garble"}}

PutFrame(f) == \E o \in FrameOutcomes(f) : fwd' = fwd \o o
PutEot(f) == \E o \in EotOutcomes(f) : fwd' = fwd \o o
PutByte(c) == \E o \in ByteOutcomes(c) : bwd' = bwd \o o

LineInit == fwd = <<>> /\ bwd = <<>>
LineTypeOK == fwd \in Seq(Frames) /\ bwd \in Seq(Bytes)
=============================================================================
