# Verification of erd_server

TLA+ models of the parts of this repository that keep state across calls, messages and
threads, TLC configurations that model-check them on small instances, and theorems
about the file transfer, the configuration service, the configuration file and the
serial driver that TLAPS proves for every instance. Paths below are relative to the
repository; `send.c` and `recv.c` are `src/xymodem/xymodem_send.c` and
`xymodem_recv.c`.

## Inventory

| Component | State | Operations | Interacts with | Hard behaviour |
|---|---|---|---|---|
| Sender, `send.c` | packet, `seq`, `state` (IDLE, CRC, CKS) | open, start, loop, eot, close, cancel; all through `xmodem_send_pkt` | receiver, over the line | lost and stale acknowledgements, retry counts, EOT, flush of the error path, calls made again after a failure |
| Receiver, `recv.c` | `sync`, `retry`, `pktno`, `fsize`, `count`, `xfr_mode` | init, loop, cancel; `xmodem_recv_pkt` | sender, over the line | retransmissions, damaged packets, payload read as control bytes, fallback to XMODEM, wrap of the number |
| Configuration service, `sysconf.c`, `trdp_conf.c` | `save_req`, `save_ack`, mutex, timer, file | start, stop, load, save, save_req, delete; timer callback | application threads, file codec | a counter changed outside of the mutex, requests during a commit, restarted timer |
| Configuration file codec, `conf.c`, `libconf/` | none but the variables and the file | load, parse, save, access by name; 33 types | configuration service, file system | truncation before writing, edited and torn files, order of sections, strings that fill their arrays, two sets of type numbers |
| Serial driver, `win/winserial.c` | cached time-outs and line settings, what to restore, receive buffer | open, close, send, recv, drain, ioctl | both ends of a transfer, chat | reads of mixed sizes, caches after a failed call, an open that fails half way |
| Chat, `chat.c` | position in every wait pattern | serial_chat | serial driver | restart of a pattern within its own prefix, a peer that falls silent |
| Matcher, `match.c`; `lookup.c`, `libconf/lookup.c` | none | match, file_lookup, conf_lookup | file system | recursion over the pattern |
| System layer, `osal.c` | handles | threads, mutexes, semaphores, sleep | everything | a named semaphore as mutex |
| GUI, COM port list, command line | window state | window procedures, registry | Win32 | none that is kept |

What makes each correct: the application at the receiving end gets what the
other end handed over, in order, once, and no end waits for ever (transfer);
what was asked to be saved is saved, and only one thread works on the file
(service); what was saved is what is loaded, and a load changes only what the
file names (codec); bytes leave the driver once and in the order they came, its
caches agree with the device, and a closed port is as it was found (driver); an
answer that is reported was received, and one that came is reported (chat).

## Modules

| Module | Models | Uses |
|---|---|---|
| `XModemLine` | the line and the vocabulary of `include/xmodem.h` | |
| `XModemSend` | `send.c` | `XModemLine` |
| `XModemRecv` | `recv.c` | `XModemLine` |
| `XYModem` | both ends and their timing; the properties | `XModemSend`, `XModemRecv`, `FileTransfer` |
| `FileTransfer` | what a transfer promises, with no word about packets | |
| `XYModem_proofs` | theorems about `XYModem` | `XYModem`, TLAPS |
| `YModem_proofs` | theorems about YMODEM under noise, and that a batch is a transfer | `XYModem_proofs` |
| `XYPrompt_proofs` | theorems about transfers between prompt applications | `YModem_proofs` |
| `XModemFraming` | the byte buffers of `send.c` and `recv.c`, which `XYModem` abstracts | |
| `XModemFraming_proofs` | theorems about `XModemFraming` | `XModemFraming`, TLAPS |
| `ConfSvc` | `sysconf.c`; with `HasReq = FALSE`, `trdp_conf.c` | |
| `ConfSvc_proofs` | theorems about `ConfSvc` | `ConfSvc`, TLAPS |
| `WinSerial` | `win/winserial.c` | `ByteQueue` |
| `ByteQueue` | what the callers of a serial device count on | |
| `SerialChat`, `MCSerialChat` | `chat.c` over the driver, and any other caller before and after; an instance | `WinSerial` |
| `SerialChat_proofs` | theorems about `SerialChat` and the driver below it | `SerialChat`, TLAPS |
| `ConfFile`, `MCConfFile` | `conf.c` and its copy in `libconf/`; an instance | |
| `ConfFile_proofs` | theorems about `ConfFile` | `ConfFile`, TLAPS |

### The transfer

`fwd` and `bwd` are the two directions of the line. Every call of the sending
application is one action (`SendStart`, `SendLoop`, `SendEot`, `SendClose`) up
to the first wait of `xmodem_send_pkt`; then each read, time-out or write of
`xmodem_send_pkt` is an action, at the point `spc` names: `sync` (the loop that
waits for C or NAK), `tx`, `reply`, `flush`. `ReplyAck` includes what the
calling function does on success (number, next item, state). The receiver is
cut the same way at `rpc`: `sync` (writes `rx->sync`), `hunt` (first byte),
`body` (the rest), `flush`. An acknowledgement of a data block is the value of
`rx->sync`, so it leaves only with the next call of the application, as in the
code.

A packet is abstracted to its number, the item it carries and whether it is
`good`, `bad` (altered) or `short`; the checks of complement and FCS are
assumed to find every alteration. An item `<<f, b>>` identifies block `b` of
file `f` for the properties; the code's decisions read the number only. A
packet that lost its first byte is `STRAY`: any of its bytes may be taken for
a packet's start, for EOT or for CAN. Here a packet is a block; how bytes become
packets is the subject of the next module. The sending application stops after a
failed call, the receiving one after a failed or cancelled one: calls made again
are also left to the next module.

### Bytes and packets

In `XModemFraming` a packet has its bytes, and applications call again after a
failure. `sbuf` and `dlen` are `sx->pkt.data` and `sx->data_len`; `SendLoop` is a
call of `xmodem_send_loop`, `Fill` one turn of its loop, `SendTail` one turn of
`xmodem_send_eot`, with its `data` that moves on (`off`) while the packet is sent
from the start of the buffer. `rbuf`, `rlen`, `rpos` are the buffer from which
`xmodem_recv_loop` hands out pieces. Byte `i` of file `f` is `<<f, i>>`.

Of `xmodem_send_pkt` this module keeps what the order of packets and answers
depends on. `Transmit` puts the packet on `line`; in state IDLE (`idle`) it waited
for the `C` before, of which only the moment is kept, which is any, and dropped
what came ahead of it. `TransmitAgain` is the repetition on NAK or time-out.
`Acked` takes one of the `acks` not yet read, whichever transmission it answers:
nothing is discarded when a call begins in state CRC or CKS (`send.c:66`), and an
ACK has no number. `AckedData` and `AckedOther` add what the calling function does
then. `PktFails` leaves the packet lost, under way or taken; the flush of the
error path may read some of the ACKs. `Lose` loses a packet. The receiver
acknowledges data by writing `sync` with its next call (`RecvCall`) and again after
each time-out (`RecvTimeout`), everything else at once; a packet is a
duplicate, the next one, or brings "wrong sequence" (`RecvWrong`, after which the
application calls again) or the fallback to XMODEM and what else takes a header for
data or data for a header (`RecvAstray`, where the session is not followed further).

After a failed call the application goes on behind the bytes the call took: the
code does not report how many those are, but a caller that passes them again sends
them twice. The flush reads into the packet buffer (`send.c:217`): `dirty` says that
a packet to be sent again was overwritten, `spoilt` that one was acknowledged
(`"sent"`) or received as new (`"got"`). `blk` numbers the packets of a file, 0 for
the header, and so names the packet that the receiver waits for (`Due`). `missed`
says that this packet was once neither under way nor to be sent any more, because an
ACK of an earlier transmission had answered for it (`Missing`). `Framed` excepts
`"sent"`; `Delivered` and `NeverWrong` except `missed`, the former also `"got"`.

### Driver and chat

`port` is what the device has, `drv` what the driver remembers of it and has
saved for the close, `rxq` the device's queue and `rx` the driver's buffer. A call
of `win_serial_recv` is `Recv` up to its wait, and `RecvData`, `RecvNothing` or
`RecvFails` from there; between the two only the line acts, since the
application has one thread for the port. Each system call named in `Faults` may
fail. `refused` and `spoiled` are history: the time-out that the device refused
and the driver remembered all the same (`winserial.c:113`), and that an open or
a close left settings behind. Of the line settings three fields stand for all: one
that is always set, one that only known values set, one that only a known value
clears. `win_serial_send` changes no state that is modelled; its results are
kept, 0 for a missing event included, because `chat.c:131` tests for less than 0.
`ByteQueue` is the abstract device: `SerialChat!Refines` says that the driver
implements it with `pending` the unread part of the buffer and the queue behind it.

`serial_chat` is `ChatSend`, then `ChatFound` or `ChatRead` and `ChatGot` in
turn, one byte at a time, as in the code. Before and after a call the application opens,
closes, configures and reads the port in any other way.

### The configuration service

A step is one access to what the threads share: the mutex, `save_req` (read and
write are two steps, as `save_req++` is outside of the mutex in
`sysconf_save_req`), `save_ack`, the timer, the file. `cfg` is the version of
the configuration in memory, which the application changes without the service,
and which a load takes back to the one in the file: `Main` loads at the start and
the workers at any time, among saves, requests and callbacks (`Load`). What a load
has replaced in memory can no longer be saved, so `Read` takes back `ver` and
`want` with it. Locking the mutex that `sysconf_stop` has destroyed
(`sysconf.c:458`) is undefined: `Lock` then goes on without the mutex or never
returns (`"hung"`). `sysconf.c` is built by none of the makefiles; its simpler
sibling `trdp_conf.c` is (`HasReq = FALSE`). It is modelled because it is complete and
has the timer's callback beside the application's threads.

### The configuration file

A file is a sequence of lines; a line keeps of its text what the parser and
the `t_set` functions tell apart. `conf_parse` takes a line per step, so a crash
or the end of a damaged file may fall anywhere. `table.copy` chooses between
`include/conf.h` with `conf.c` and `libconf/`, which number the types
differently. The widths 8 to 64 bits are a constant, scaled down by TLC.
Uninitialised values (`hex8_set` and `hex16_set` on a text that is no number)
are any value. `Behind` says which variable lies right behind a string's array: a
string that fills the array is ended in the first byte of that variable
(`conf.c:218`, `Clobbers`), and when the variable is set again the string has lost
its end (`Unended`). A save then prints on into what follows (`SaveOverread`), where
the model stops.

## Runs

| Run | Question | Bounds and why they are enough |
|---|---|---|
| `ymodem_noise` | Altered packets and lost replies, checksum mode: is an acknowledged block ever lost unnoticed, delivered twice or out of order; is a truncated file taken for whole; is a retransmission one? | 2 files of 2 blocks: the first, a middle and the last block, EOT between files, null header. `SeqMod` 5, more than the 4 numbers in use |
| `ymodem_lossy` | Every fault but lost first bytes, CRC mode: does the protocol implement `FileTransfer`, do both ends stop? | as above, retry limits 3, 2, 3 and 2 for 20, 10, 30 and 10: each is reached and exceeded |
| `ymodem_prompt` | No faults, prompt applications: does the transfer succeed? | 2 files of 5 blocks with 4 numbers, so that the number wraps |
| `xmodem_wrap` | XMODEM between prompt applications with every fault, lost first bytes included: order, size limit, wrap of the number | 10 blocks with 4 numbers, limit 8: the number wraps twice before the limit cuts; retry limits 3, the most that 4 numbers allow |
| `xmodem_first_block` | violation, see below | |
| `xmodem_framing` | Do the packets carry the file and does the receiver hand it out, however both applications cut it, also when calls fail and are made again, and packets and ACKs are late? | packets of 2 and 8 bytes for 128 and 1024; lengths 0 (no data), 5 (one packet in YMODEM, the long tail in XMODEM-1K), 10 (a long packet and a tail, five packets in XMODEM); calls of nothing, of one byte and of more than a packet; 2 files, so that a buffer and a number are used again; 2 failures, so that a repetition fails too; 2 packets and 2 ACKs under way (`MaxAhead`), enough for an ACK to answer for a later packet than it acknowledges and for that packet to be lost |
| `confsvc_deferred` | Exclusion of loads and saves, no forgotten request, requests looked at in the end | 2 workers, 2 callback threads, so that one waits for the mutex while `sysconf_stop` and another are about; counters modulo 3, so that they wrap and meet |
| `confsvc_direct` | `trdp_conf.c`: is a save durable, is nothing lost at the stop, with loads in between? | 2 workers, 3 changes, counters modulo 2 |
| `confsvc_swallowed` | violation, see below | 1 worker and the callback are enough |
| `conf_file` | Does a load restore a save, whole or cut by a crash; does it touch anything else? | 3 nested sections with one entry each, one of which takes 8 types, 2 changes, 1 edited line: an entry before, between and behind headers; `StrSize = StrLen`, arrays exactly as long as the longest string, as all are in `syscfg.h:36-44`, each variable right behind the one before |
| `conf_torn` | violation, see below | |
| `serial_chat` | Does the driver implement a byte queue, do its caches agree with the device, is an answer recognised and does the call return? | the buffer, the queue and the bytes that arrive are few but more than a read takes, so that rests, refills and full buffers occur; 2 characters, patterns that share a prefix, one repeating its first character, one behind the limit of the list; every system call may fail |

Deadlock is checked in the transfer; in `ConfSvc` and `ConfFile` the bounds on
changes end a behaviour, `ConfFile` stops where the parser leaves the text
or overwrites a section's pointer, and `XModemFraming` when the transfer is over or
its bounds are used up, so it is not checked there.

What holds, in words: within the limits below, a YMODEM batch arrives in order,
without gap or repetition, whatever is altered, truncated, lost or late; both ends
stop; a transfer over a good line succeeds. XMODEM delivers all but the first block.
Saves and loads of the service exclude each other, a callback that goes on without the
destroyed mutex finds nothing to do, and every request is looked at; without deferred
saves a returned save is in the file, unless a load in between put the older version
back. A saved file restores every value of a supported type, except strings with
quotes or newlines, floats beyond six decimals and the character space; a file that a
crash left in part restores an initial part. A load changes nothing the file does not
name, but for the first byte behind a string that fills its array. The packets of a
file carry its bytes in order, whole, with zeros behind, also after failed calls that
are made again, but for what a flush overwrote and for the tails of XMODEM-1K of more
than 128 and at most 896 bytes, of which only the beginning is sent (`send.c:345`).
The receiver hands out exactly the files, and meets no number it does not expect,
however late packets and ACKs are, until a packet is lost that a late ACK has answered
for. The driver hands out every byte once and in order whatever fails; `serial_chat`
reports only what was received, misses no answer that nothing precedes which looks
like its beginning, and returns when the peer is silent.

Limits of these results, found by TLC with other values of the constants:

- With `SeqMod` or more packets lost in a row, or stale acknowledgements and a
  number of blocks above `SeqMod`, a block may be skipped: acknowledgements
  carry no number. The code has 256 numbers. Each time-out of the receiver
  repeats its last acknowledgement, and its retry count starts over with every
  block, so with slow applications stale acknowledgements add up over a file, and
  with lost packets the sender can get a round of numbers ahead: `AllButFirst`
  fails with `Late = TRUE`, 4 numbers and retry limits of 2. Between prompt
  applications an acknowledgement is stale only if a packet was lost, and the
  retry limits, 30 and 10, end the session before the round: with `InitRetry` and
  `DataRetry` equal to `SeqMod` it fails there too, with one less it is a theorem.
- In checksum mode EOT is sent again on NAK, which is also the receiver's sync
  byte. The surplus acknowledgement can stand for the next header's, and the
  receiver then falls back to XMODEM on the first block: `NoGap` fails with 2
  files and lost packets. For the same reason `Terminates` is not claimed
  there. With lost first bytes `InOrder` fails in checksum mode, and `NoGap`
  in either.
- A string of `var->len` characters is ended at index `len` (`conf.c:218`), outside
  the arrays of `syscfg.h:42`. `LoadLocal` and `CrashKeepsPrefix` allow the byte that
  this zeroes in the variable behind, and no other damage. The variable then has a
  changed value until its own line is read, and when that line or the application sets it, the
  string has no end any more; what `conf_save` prints of it is not followed.
- A call of the sender that is made again is answered by the ACK of the first
  transmission (`send.c:66`, `send.c:182-187`), and so may be any call when the
  receiver repeated an ACK after a time-out. The sender is then one
  acknowledgement ahead: the packet is taken late, its duplicate is acknowledged too,
  and if a packet behind it is lost, that ACK answers for it. The receiver next meets
  a number it does not expect ("wrong sequence"), or an EOT and the header of
  the next file with the tail missing. Without `~missed` TLC finds
  `NeverWrong` and `Delivered` violated, also with `MaxFails = 0`, where a repeated
  ACK takes the place of the repeated call.
- The reply wait is tried again only when the count has just reached the limit
  (`send.c:171-174`): in effect a reply that does not come ends the call.
- After a false start (`aab` for the answer `ab`) `serial_chat` misses the answer
  (`chat.c:162`); `FreshIsFound` is about the others.
- A truncated or lost last packet together with a stale acknowledgement ends with
  success at both ends and the last block missing: `count` is never compared
  with the declared size (`recv.c:111`).

Some hazards no property covers, because the code does what the hazard says and
nothing in the repository says otherwise. The models contain them, and the
properties except them by name: the overwritten packet (`send.c:217`), the long tail
(`send.c:345`), an empty value (`conf.c:1124`), an entry that names a section
(`conf.c:90`), the repeated type numbers (`include/conf.h:82`), the false start
(`chat.c:162`). Others are visible in no state of the models: a failed save that is
acknowledged (`sysconf.c:301`), a send that sent nothing (`winserial.c:60`), an answer
that came before the request (`chat.c:131`). `ClosePutsBack`, `WaitsAsAsked` and
`DcbIsCurrent` are about ports whose open and close did not fail half way, about
time-outs the device did not refuse, and about the driver's copy of the settings, not about
what the caller of the ioctl is told.

### Disagreements between the code and its own words

- `xmodem_first_block`: in XMODEM mode the first block is numbered 0
  (`send.c:235`) and the receiver expects 1 (`recv.c:336`): it is acknowledged as
  a retransmission (`recv.c:194`) and lost.
- `confsvc_swallowed`: `save_ack = save_req` after the save (`sysconf.c:305`)
  acknowledges requests made during it; `sysconf_stop` commits nothing.
- `conf_torn`: a value ended by the end of the text moves the parser behind it
  (`conf.c:1131`), past the terminator that `conf_load` sets (`conf.c:1171`).

The types from `CONF_INT64` on have numbers that select other rows of the table
(`include/conf.h:82`). No table of the repository uses them; `ConfFile`
has both numberings, and `conf_file` takes INT64 from `libconf`'s.

## Fairness

Transfer: an application goes on calling until its session ends, and a wait of
the driver ends with a byte or with its time-out (`Fairness` in `XYModem`). With
`Late = TRUE` a time-out may strike whenever nothing has arrived, because the
code bounds no application's delay; with `Late = FALSE` only when the other end
has nothing to do either. No fairness is assumed of the line's faults.

Service: a thread inside a call goes on, a free mutex is given to a waiting
thread when no other wants it any more, and the timer expires when no request
restarts it (`QuietExpire`).

Chat: a call that has begun goes on and a read that waits ends, because
`win_serial_recv` never waits without a time-out (`ReadIntervalTimeout` and
`ReadTotalTimeoutConstant` are set from `tmo_msec`). The peer may send for ever;
`ChatEnds` holds as the bytes that arrive are bounded (`MaxBytes`): it says that
the call returns once the peer is silent. `ConfFile` and `XModemFraming` check
safety only.

## Proofs

`XYModem_proofs` proves, from the assumptions on the constants in the modules
alone:

- `TypeCorrect`: `Spec => []TypeOK`. The induction needs `Live`: the retry
  count of the receiver is above zero as long as it waits, so that the
  decrement stays in `Nat`.
- `DeliveryInOrder`: `"behead" \notin Faults => (Spec => []InOrder)`, for every
  mode, checksum, number of files and blocks, sequence modulus above 2, retry
  limits and all other faults. `InOrder` is not inductive: nothing in it says
  why the packet that is accepted next is a later one. The invariant `OrderInv`
  adds what the line may hold: packets on the line are sorted by item
  (`FwdSorted`) and not beyond the sender (`NotAhead`); two with the same item
  carry the same number (`SameSeq`); what the receiver has is no EOT
  (`GotBlocks`) and not beyond what is still on the line (`NotBelow`); and the
  last item received has the number before the expected one (`LastSeq`), so that
  its repetition is recognised and any other packet is a later item. Then each
  step either leaves the order alone (`ReceiverSkips`, `SenderStays`), moves the
  sender forward (`SenderAdvances`), puts a packet behind all others
  (`SenderTransmits`) or delivers the head of the line (`ReceiverReturns`).

The exclusion of lost first bytes is needed: a run of payload bytes taken for
EOT resets the expected number, and `InOrder` fails in checksum mode.

- `SizeRespected`: `Spec => []WithinDeclared` under every set of faults, if no
  header declares more than the limit of XMODEM. The count of the file before
  is still there when the receiver falls back and takes that limit, so `SizeInv`
  bounds count and size by it.

`YModem_proofs` builds on `TypeInv` and `OrderInv` of that module and proves, for
YMODEM under `NoiseOnly`, which are the faults of `ymodem_noise` and more (altered
packets, lost and altered replies, device errors, any delays and cancellations):
`NothingSkipped` (`NoGap`), `WholeFiles` (`HeaderAfterWholeFile`),
`AcknowledgedIsSafe` (`AckedIsSafe`), `DuplicatesAreKnown` (`DuplicateWasGot`) and
`BatchIsATransfer`: `Spec => Refines`, the batch implements `FileTransfer`.

The invariant `NoiseInv` is about `Taken`, the item the receiver took last, whether or
not it returned it: what the sender has put on the line is there still or was
taken (`Covered`), nothing on the line is before `Taken` (`NotUnder`), the number
expected and the count follow from it (`Expects`), and what was taken was
returned (`Whole`). Since the line is sorted, its head then repeats `Taken` or
follows it (`HeadFollows`), and `NextSeq`, which rests on the uniqueness of the
remainder, lets the number decide which (`HeadPacket`). `Covered` and what depends on it
hold until the receiver finds damage; from then on it returns nothing. A lost
packet, or one that lost bytes, is excluded because the theorems then fail or
because a time-out hides the damage (see Limits). `NoiseOnly` also asks, where an
EOT can go unseen, that the header's number 0 differs from those of the last
block and the one behind it. TLC finds no violation without it, because the wait
for `C` or NAK stops the sender first; the proof does not use that wait.

`XYPrompt_proofs` is about `Late = FALSE`. `AllButTheFirst` proves `AllButFirst`
for XMODEM under every set of faults, any length of the file and any size limit,
with retry limits below `SeqMod` (`LimitsFit`). The invariant `XInv`, beside
`TypeInv`, counts turns: as long as both sessions run there is at most one thing
going on (`OneTurn`), be it a frame or a byte on the line, the sender about to send or the
receiver about to answer. So a time-out of the receiver, at the cost of a retry, brings one
acknowledgement, and that takes the sender at most one block further. `Reach`
is how far it can have got: one block beyond the receiver's, plus the retries used up
since. What is on the line lies between the receiver's block and `Reach`
(`XLine`), less than `SeqMod` apart, and there the number identifies the block
(`WhichBlock`, from the uniqueness of the remainder). The sender may have
ended, failed or been cancelled meanwhile; what it left on the line stays within
that range.

`AcknowledgedIsDelivered` proves `AckedIsDelivered` for YMODEM over a line without
faults (`NoFaults`: the device may still fail, and either application cancel), with any
numbers. Its invariant `YInv` rests on that of `YModem_proofs`: while both ends work
the transfer is in one of five phases (`YPhase`), each with what is on the line
(the first byte, the packet, the acknowledgement and the byte that asks for more),
which leaves no time-out enabled; and once an end is on its way out, what
is left for the sender to read holds at most one acknowledgement, of a block the
application has got (`YAnswer`).

`XModemFraming_proofs` proves, for any sizes of packets with the long one more than
twice the short one, any files, calls and reads and any number of failures:
`TypeCorrect`; `PacketsCarryTheFile` (`Framed`); `NumbersAgree` (`NeverWrong`);
`BatchDelivered` (`Delivered`). `Framed` is not inductive: `FrameInv` says where in
the file the buffer stands (`Base`, the bytes that went out in whole packets), that
`sbuf` and a packet under way hold the bytes from there on (`BufInv`, `JobData`), and
that all but the last packet are full, which is why the tail fits in one packet
(`TailInv`).

`NumbersAgree` and `BatchDelivered` rest on what a packet's place, its file and
number within it, says of it. `PacketOk` gives the kind, the sequence number
(`Num`) and the bytes (`Follows` from `Off` on) of every packet on the line from its
place; `BlkInv` the same of the packet in hand and of what the sender does next.
`LineInv` says that places on the line never decrease and are not ahead of the
sender, which is true because packets are not reordered and the sender only moves
forward, whichever ACK moved it. `RecvInv` relates the receiver's number to the
place it has reached, so that nothing on the line is before the last packet taken
(`Past`). Last, unless `missed`, the packet that the receiver waits for is on the line
or still to be sent (`OrderInv`): as places do not decrease, whatever comes first is
a repetition of the last packet or the one that is due, and no packet of a later
place, for which the proof has to look at the end of a file and the next header too.
`DataInv` relates what the receiver has handed out and still holds (`Has`, `HandInv`)
to the packets taken.

`ConfSvc_proofs` proves, for any number of workers and of expiries on their way,
any modulus of the counters above 1, with and without the deferred save:

- `TypeCorrect`; `MutualExclusion`: `Exclusive`; `NothingForgotten`:
  `PendingIsScheduled`. Callbacks that `sysconf_stop` overtook lock a destroyed
  mutex (`sysconf.c:458`). `Exclusive` says that one which goes on from there enters
  no load and no save: it finds nothing pending (`Over` in the invariant).
- With `HasReq = FALSE` and `SaveFails = FALSE` (the code of `trdp_conf.c`):
  `Durable` (`SaveIsDurable`) and `StopLeavesAll` (`StopCommits`).

The invariant `IInv` has `Shape` (which thread is in which call and step),
`Life` (workers run only while the service is started and not stopping; the
mutex and the timer exist as long as it is), `Locked` (who is inside holds the
mutex) and `Pending`, which drops from `PendingIsScheduled` the threads that are
never its only witness and adds that nothing is pending once `sysconf_stop` has
deleted the timer. `Saved` adds, for the direct variant, that only a save between
its increment and its acknowledgement leaves the counters different, that the
increment is not lost, and that the file is never newer than the memory nor
older than what was asked for.

`SerialChat_proofs` proves, for any sizes, characters, lists of patterns,
time-outs, settings and any set of failing system calls, every property of the
run `serial_chat` but `ChatEnds`:

- `TypeCorrect`, `TimeoutCached` (`WaitsAsAsked`), `SettingsCached`
  (`DcbIsCurrent`), `PortRestored` (`ClosePutsBack`), `AnswerReceived`
  (`AnswerIsHeard`), `AnswerFound` (`FreshIsFound`), from the invariant `IInv`:
  `SettingsInv` relates what the driver remembers and saved to the device;
  `HeardInv` what serial_chat has read to what the driver has handed out, with
  the byte in between when a read has just ended; `MatchInv` says of each
  pattern that what is matched is what was read last (`Suffix`), and that nothing
  else can be matched when what was read begins the pattern after bytes without
  its first character (`Follows`), which makes `FreshIsFound` inductive.
- `DriverIsAQueue`: `Spec => Refines`, every step of the driver, its callers and
  the line is a step of `ByteQueue` or a stutter. `HandTakes` is the core: what
  the loop of `win_serial_recv` takes from the buffer it takes from the front of
  buffer and queue.

`ConfFile_proofs` proves, for any tree of sections with any entries, any types, widths
of the integers, lengths of strings, bounds on edits and changes:

- `TypeCorrect` (`TypeOK`), without further conditions. What `t_set` stores is a
  value of the type for every text (`ScannedType`).
- `LoadsLocally` (`LoadLocal`), without further conditions, also where the arrays have
  no room for the terminator of the longest string. A load does one of three things to a
  variable: nothing, what a line that names it says, or a zero in its first byte when
  a line fills the string right before it. `LocalInv` adds to the property
  `SectionInv`: the parser's section is that of the last header above the line it is
  at, or none if that one is unknown.
- `SavedIsLoaded` (`RoundTrip`) and `CrashKeepsFirst` (`CrashKeepsPrefix`), where
  `NumbersRight`: with the program's own copy, only types up to `OCT32` are
  used, since the numbers behind them select other rows (`include/conf.h:82`). Each
  number then selects the row of its type (`TypeForm`), and what that row
  prints it scans back (`KeptBack`).

`RoundInv` adds to `LocalInv` that the file is the written one, up to where a crash
cut it, that the strings in it had their ends (`FileInv`, `Ended`), and that a load
has restored the variables whose lines are behind it and no others (`LoadInv`). The
lemmas on the writer say where its lines are: section after section, a blank line and
a header, then one entry for each variable in table order (`LaidOut`); so each
variable is named by one line (`NamedIs`, `NamedOnce`) and the lines come in the order
of `Order` (`NamedInOrder`), which turns "the lines behind the parser" into "the first
n variables". `write_section` is made with `FlattenSeq`, a recursive function; what it
returns is followed up to a bound by an induction of the module's own (`Upward`, from
the least member of a set of numbers) and not by the library's induction theorems.

The assumptions on the constants are what the tables of the repository are like: a
section occurs once, its entries have different names, the application gives a
variable values of its type. The first attempt at `TypeCorrect` found CASE
expressions of the model with arms that overlap, where TLC takes the first and TLA+
any; they are disjoint now.

Only model-checked: `NoGap` and `Refines` with lost packets (`ymodem_lossy`); and
`Terminates`, `Succeeds`, `PendingIsAcked` and `ChatEnds`, since liveness under
fairness is out of the prover's reach.

## Not modelled

The GUI, the COM port list and the makefiles keep no state worth a model;
`trdp_proxy.c` does not compile as it stands. `osal.c` includes `chime-i.h`, which
is not in the repository, is built by no makefile and called by nothing; each of
its functions wraps one or two system calls. `match.c` and `lookup.c` are a
recursive matcher over strings and a pass over a directory; nothing calls
`file_lookup`, and `libconf/lookup.c` only tests for files. In `conf.c`,
pointer-valued entries, `conf_entry_get` and `conf_dump`, which change nothing,
and entries edited to hold a text in the form of another type, as `1` for a Boolean.

## Plan

1. Theorems: `Refines` with lost packets in CRC mode, by an invariant on the
   acknowledgements under way.
