------------------------------- MODULE BqLink -------------------------------
(***************************************************************************)
(* One read after another over the UART to the BQ79616:                    *)
(* bq7961x_single_read in bq79616.c, byte by byte.  The receiver of the    *)
(* UART holds one byte (its FIFO is not enabled); a byte that arrives      *)
(* while it is full is lost and marks an overrun.  Nothing empties the     *)
(* receiver but a read, so what one read leaves behind the next one finds. *)
(*                                                                         *)
(* The bytes of an answer are told apart by their place: the first one     *)
(* says how many data bytes follow, the second stands for device and       *)
(* register, the last for the checksum.                                    *)
(***************************************************************************)
EXTENDS Naturals, Sequences

CONSTANTS
  Requests,          \* what is read: records of a register and a data size
  Polls,             \* the requests whose failures are counted
  FailureThreshold,  \* BQ_COMM_FAILURE_THRESHOLD
  GlitchKinds,       \* what may happen on the line
  OverrunReported,   \* HAL_UART_Receive gives up on an overrun
  MaxGlitches        \* on the line between two good polls (a bound)

ASSUME LinkAssumption ==
  /\ Requests # {} /\ Requests \subseteq [reg : Nat, size : Nat \ {0}]
  /\ Polls \subseteq Requests
  /\ FailureThreshold \in Nat \ {0}
  /\ GlitchKinds \subseteq {"unsent", "lost", "short", "damaged", "init", "late",
                            "noise"}
  /\ OverrunReported \in BOOLEAN
  /\ MaxGlitches \in Nat

VARIABLES
  \* the host
  host,        \* "idle", waiting for the first byte or the rest, "check", "disabled"
  req,         \* the request being served
  got,         \* rx_buf
  failures,    \* consecutive_fault_failures
  \* the UART
  rdr,         \* the receive register: no byte or one
  overrun,     \* the overrun flag
  \* the device and the line
  answer,      \* bytes on their way to the receiver
  held,        \* the device is too late for the read being served
  serial,      \* tells the answer to this request from the previous one's
  \* history, read by properties only
  result,      \* of the last read until the next: "none", "ok" or "failed"
  delivered,   \* the bytes it accepted
  hit,         \* something happened to the answer to the last request
  hits,        \* things that happened on the line since a poll last succeeded
  astray       \* a byte may have reached the receiver that no read waits for

hostVars == <<host, req, got, failures>>
uartVars == <<rdr, overrun>>
lineVars == <<answer, held, serial>>
histVars == <<result, delivered, hit, hits, astray>>
vars     == <<hostVars, uartVars, lineVars, histVars>>

(* INIT, address and register, data, checksum.                             *)
FrameLen(r) == r.size + 3

(* The bytes a device sends in answer to request number s.                 *)
Frame(r, s) == [p \in 1..FrameLen(r) |-> [of |-> r, serial |-> s, pos |-> p,
                                          ok |-> TRUE]]

Damaged(frame, p) == [frame EXCEPT ![p].ok = FALSE]

SomeRequest == CHOOSE r \in Requests : TRUE

Noise == [of |-> SomeRequest, serial |-> 0, pos |-> 1, ok |-> FALSE]

Init ==
  /\ host = "idle"
  /\ req = SomeRequest
  /\ got = <<>>
  /\ failures = 0
  /\ rdr = <<>>
  /\ overrun = FALSE
  /\ answer = <<>>
  /\ held = FALSE
  /\ serial = 0
  /\ result = "none"
  /\ delivered = <<>>
  /\ hit = FALSE
  /\ hits = 0
  /\ astray = FALSE

Waiting == host \in {"init", "rest"}

-----------------------------------------------------------------------------
(* The line and the device.                                                *)

(* What may arrive in answer to r: all of it, nothing, a part of it, all   *)
(* of it with one byte damaged.                                            *)
AnswersTo(r, kind) ==
  LET frame == Frame(r, 1 - serial) IN
  CASE kind \in {"none", "late"} -> {frame}
    [] kind = "lost"             -> {<<>>}
    [] kind = "short"            -> {SubSeq(frame, 1, n) : n \in 1..FrameLen(r) - 1}
    [] kind = "damaged"          -> {Damaged(frame, p) : p \in 2..FrameLen(r)}
    [] kind = "init"             -> {Damaged(frame, 1)}

Glitch == hits < MaxGlitches /\ hits' = hits + 1

(* A byte reaches the receiver.  A waiting host polls faster than bytes    *)
(* arrive.                                                                 *)
Arrive ==
  /\ answer # <<>>
  /\ ~held
  /\ ~(Waiting /\ (rdr # <<>> \/ (overrun /\ OverrunReported)))
  /\ answer' = Tail(answer)
  /\ IF rdr = <<>> THEN rdr' = <<Head(answer)>> /\ UNCHANGED overrun
                   ELSE overrun' = TRUE /\ UNCHANGED rdr
  /\ UNCHANGED <<hostVars, held, serial, histVars>>

(* A disturbance between two reads is taken for a byte.                    *)
Disturb ==
  /\ "noise" \in GlitchKinds
  /\ host = "idle"
  /\ IF rdr = <<>> THEN rdr' = <<Noise>> /\ UNCHANGED overrun
                   ELSE overrun' = TRUE /\ UNCHANGED rdr
  /\ Glitch
  /\ astray' = TRUE
  /\ UNCHANGED <<hostVars, lineVars, result, delivered, hit>>

-----------------------------------------------------------------------------
(* bq7961x_single_read.                                                    *)

(* Polls are so far apart that the answers of earlier ones have arrived;   *)
(* other reads may come at once after a failed read or just before a poll. *)
(* No more than one answer is still on its way then (a bound).             *)
MayFollow(r) ==
  /\ Len(answer) <= FrameLen(req)
  /\ r \in Polls => \A i \in 1..Len(answer) : answer[i].of \notin Polls

(* The request is built and sent, and the device is meant to answer.       *)
Request(r, kind) ==
  /\ host = "idle"
  /\ MayFollow(r)
  /\ \E bytes \in AnswersTo(r, kind) : answer' = answer \o bytes
  /\ host' = "init"
  /\ req' = r
  /\ got' = <<>>
  /\ held' = (kind = "late")
  /\ serial' = 1 - serial
  /\ hit' = (kind # "none")
  /\ IF kind # "none" THEN Glitch ELSE UNCHANGED hits
  /\ astray' = (astray \/ kind \in {"init", "late"})
  /\ result' = "none"
  /\ delivered' = <<>>
  /\ UNCHANGED <<failures, uartVars>>

(* A mistake: the threshold never looked at.                               *)
ReadFailsForever(r) ==
  /\ result' = "failed"
  /\ got' = <<>>
  /\ held' = FALSE
  /\ host' = "idle"
  /\ IF r \in Polls THEN failures' = failures + 1 ELSE UNCHANGED failures

(* The read returns a status other than zero.  Failures of polls are       *)
(* counted by bq79616_service_task, which disables the monitor at the      *)
(* threshold.                                                              *)
ReadFails(r) ==
  /\ result' = "failed"
  /\ got' = <<>>
  /\ held' = FALSE
  /\ IF r \in Polls
       THEN /\ failures' = failures + 1
            /\ host' = IF failures + 1 >= FailureThreshold THEN "disabled" ELSE "idle"
       ELSE host' = "idle" /\ UNCHANGED failures

(* HAL_UART_Transmit fails, and no answer is waited for.                   *)
RequestUnsent(r) ==
  /\ "unsent" \in GlitchKinds
  /\ host = "idle"
  /\ ReadFails(r)
  /\ req' = r
  /\ delivered' = <<>>
  /\ hit' = TRUE
  /\ Glitch
  /\ UNCHANGED <<uartVars, answer, serial, astray>>

(* What a byte says when it is taken for the first of an answer: a genuine *)
(* one its size, any other anything.                                       *)
MayAnnounce(b, size) == b.pos = 1 /\ b.ok => b.of.size = size
MayRefuse(b, size)   == ~(b.pos = 1 /\ b.ok /\ b.of.size = size)

(* The first byte announces as many data bytes as were asked for ...       *)
TakeInit ==
  /\ host = "init"
  /\ rdr # <<>>
  /\ MayAnnounce(rdr[1], req.size)
  /\ host' = "rest"
  /\ got' = rdr
  /\ rdr' = <<>>
  /\ UNCHANGED <<req, failures, overrun, lineVars, histVars>>

(* ... or it does not, and the read ends: the rest is left to arrive.      *)
RefuseInit ==
  /\ host = "init"
  /\ rdr # <<>>
  /\ MayRefuse(rdr[1], req.size)
  /\ ReadFails(req)
  /\ rdr' = <<>>
  /\ UNCHANGED <<req, overrun, answer, serial, delivered, hit, hits,
                 astray>>

(* A mistake: one byte of the checksum not waited for.                     *)
ReadLenShort(r) == FrameLen(r) - 1

ReadLen(r) == FrameLen(r)

TakeRest ==
  /\ host = "rest"
  /\ rdr # <<>>
  /\ got' = got \o rdr
  /\ rdr' = <<>>
  /\ host' = IF Len(got) + 1 = ReadLen(req) THEN "check" ELSE "rest"
  /\ UNCHANGED <<req, failures, overrun, lineVars, histVars>>

(* A mistake: no checksum.                                                 *)
CrcIgnored(bytes) == TRUE

(* The checksum over the whole frame holds for the bytes of one answer,    *)
(* all of them and in order, and for nothing else.  First bytes of answers *)
(* of one size are alike.                                                  *)
CrcHolds(bytes) ==
  /\ \A p \in 1..Len(bytes) : bytes[p].ok /\ bytes[p].pos = p
  /\ Len(bytes) = FrameLen(bytes[1].of)
  /\ \A p \in 2..Len(bytes) :
       /\ bytes[p].of = bytes[2].of
       /\ bytes[p].serial = bytes[2].serial
       /\ bytes[p].of.size = bytes[1].of.size

(* A mistake: no look at the register.                                     *)
RegisterIgnored(bytes, r) == TRUE

FieldsMatch(bytes, r) == bytes[2].of.reg = r.reg

Accept ==
  /\ host = "check"
  /\ CrcHolds(got)
  /\ FieldsMatch(got, req)
  /\ host' = "idle"
  /\ result' = "ok"
  /\ delivered' = got
  /\ got' = <<>>
  /\ held' = FALSE
  /\ IF req \in Polls THEN failures' = 0 /\ hits' = 0 ELSE UNCHANGED <<failures, hits>>
  /\ UNCHANGED <<req, uartVars, answer, serial, hit, astray>>

Reject ==
  /\ host = "check"
  /\ ~(CrcHolds(got) /\ FieldsMatch(got, req))
  /\ ReadFails(req)
  /\ UNCHANGED <<req, uartVars, answer, serial, delivered, hit, hits,
                 astray>>

(* HAL_UART_Receive gives up after its timeout, which is longer than an    *)
(* answer takes ...                                                        *)
Timeout ==
  /\ Waiting
  /\ rdr = <<>>
  /\ ~(overrun /\ OverrunReported)
  /\ held \/ answer = <<>>
  /\ ReadFails(req)
  /\ UNCHANGED <<req, uartVars, answer, serial, delivered, hit, hits,
                 astray>>

(* ... or at once on an overrun, once the byte in the register is taken.   *)
OverrunError ==
  /\ OverrunReported
  /\ Waiting
  /\ rdr = <<>>
  /\ overrun
  /\ overrun' = FALSE
  /\ ReadFails(req)
  /\ UNCHANGED <<req, rdr, answer, serial, delivered, hit, hits,
                 astray>>

Next ==
  \/ \E r \in Requests :
       \/ \E kind \in {"none"} \union (GlitchKinds \ {"noise", "unsent"}) : Request(r, kind)
       \/ RequestUnsent(r)
  \/ TakeInit
  \/ RefuseInit
  \/ TakeRest
  \/ Accept
  \/ Reject
  \/ Timeout
  \/ OverrunError
  \/ Arrive
  \/ Disturb

Spec == Init /\ [][Next]_vars

-----------------------------------------------------------------------------
Byte == [of : Requests, serial : 0..1, pos : Nat, ok : BOOLEAN]

TypeOK ==
  /\ host \in {"idle", "init", "rest", "check", "disabled"}
  /\ req \in Requests
  /\ got \in Seq(Byte)
  /\ failures \in 0..FailureThreshold
  /\ rdr \in Seq(Byte) /\ Len(rdr) <= 1
  /\ overrun \in BOOLEAN
  /\ answer \in Seq(Byte)
  /\ held \in BOOLEAN
  /\ serial \in 0..1
  /\ result \in {"none", "ok", "failed"}
  /\ delivered \in Seq(Byte)
  /\ hit \in BOOLEAN
  /\ hits \in 0..MaxGlitches
  /\ astray \in BOOLEAN

(* Whatever happens on the line, a read that reports success delivers the  *)
(* undamaged data of one answer for the register that was asked for: a     *)
(* late answer for another register, or pieces of two answers put          *)
(* together, are refused.                                                  *)
NoForeignAnswer ==
  result = "ok" =>
    \E s \in 0..1 : \A p \in 2..FrameLen(req) : delivered[p] = Frame(req, s)[p]

(* As long as no answer was late, no first byte damaged and no byte came   *)
(* from nowhere, a read fails only because of what happened to its own     *)
(* answer: requests that are not sent and answers that are lost, cut short *)
(* or damaged further on leave nothing behind that could spoil the next    *)
(* read.                                                                   *)
CleanReadSucceeds == result = "failed" /\ ~astray => hit

(* ... and what a successful read delivers is then the answer to that very *)
(* request, not to an earlier one for the same register.                   *)
OwnAnswer == result = "ok" /\ ~astray => delivered = Frame(req, serial)

(* "Tolerate short transient comm glitches before disabling BQ"            *)
(* (bq79616.c): a single one since the last good poll does not disable it. *)
OneGlitchTolerated == hits <= 1 => host # "disabled"
=============================================================================
