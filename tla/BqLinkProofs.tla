---------------------------- MODULE BqLinkProofs ----------------------------
(***************************************************************************)
(* Proofs about BqLink, for every set of requests, every kind and number   *)
(* of glitches and either treatment of an overrun.                         *)
(***************************************************************************)
EXTENDS BqLink, SequenceTheorems, TLAPS

LEMMA Sizes ==
  /\ SomeRequest \in Requests
  /\ \A r \in Requests : /\ r.reg \in Nat /\ r.size \in Nat \ {0}
                         /\ FrameLen(r) \in Nat /\ FrameLen(r) >= 4
                         /\ r = [reg |-> r.reg, size |-> r.size]
  BY LinkAssumption DEF SomeRequest, FrameLen

(* A frame is a sequence of bytes, one for each place.                     *)
LEMMA FrameBytes ==
  ASSUME NEW r \in Requests, NEW s \in 0..1
  PROVE  /\ Frame(r, s) \in Seq(Byte) /\ Len(Frame(r, s)) = FrameLen(r)
         /\ \A p \in 1..FrameLen(r) :
              Frame(r, s)[p] = [of |-> r, serial |-> s, pos |-> p, ok |-> TRUE]
  <1> DEFINE b(p) == [of |-> r, serial |-> s, pos |-> p, ok |-> TRUE]
  <1>1. FrameLen(r) \in Nat
    BY Sizes
  <1>2. \A p \in 1..FrameLen(r) : b(p) \in Byte
    BY <1>1 DEF Byte
  <1>3. Frame(r, s) = [p \in 1..FrameLen(r) |-> b(p)]
    BY DEF Frame
  <1> HIDE DEF b
  <1>4. /\ Frame(r, s) \in Seq(Byte) /\ Len(Frame(r, s)) = FrameLen(r)
        /\ \A p \in 1..FrameLen(r) : Frame(r, s)[p] = b(p)
    BY <1>1, <1>2, <1>3
  <1> QED
    BY <1>4 DEF b

(* What may arrive in answer to a request: bytes of its frame in their     *)
(* order, one of them damaged or the last ones missing.                    *)
LEMMA AnswerBytes ==
  ASSUME NEW r \in Requests, serial \in 0..1,
         NEW kind \in {"none", "lost", "short", "damaged", "init", "late"},
         NEW bytes \in AnswersTo(r, kind)
  PROVE  /\ bytes \in Seq(Byte) /\ Len(bytes) <= FrameLen(r)
         /\ kind = "none" => bytes = Frame(r, 1 - serial)
         /\ \A p \in 1..Len(bytes) :
              \/ bytes[p] = Frame(r, 1 - serial)[p]
              \/ kind = "init" /\ ~bytes[p].ok
              \/ kind = "damaged" /\ p # 1 /\ ~bytes[p].ok
  <1> DEFINE frame == Frame(r, 1 - serial)
  <1>1. /\ frame \in Seq(Byte) /\ Len(frame) = FrameLen(r)
        /\ FrameLen(r) \in Nat /\ FrameLen(r) >= 4
        /\ \A p \in 1..FrameLen(r) : frame[p] \in Byte
    <2>1. 1 - serial \in 0..1
      OBVIOUS
    <2>2. /\ frame \in Seq(Byte) /\ Len(frame) = FrameLen(r)
          /\ \A p \in 1..FrameLen(r) :
               frame[p] = [of |-> r, serial |-> 1 - serial, pos |-> p, ok |-> TRUE]
      BY <2>1, FrameBytes
    <2> HIDE DEF frame
    <2>3. \A p \in 1..FrameLen(r) : frame[p] \in Byte
      BY <2>2
    <2> QED
      BY <2>2, <2>3, Sizes
  <1> HIDE DEF frame
  <1>2. CASE kind \in {"none", "late"}
    <2>1. bytes = frame
      BY <1>2 DEF AnswersTo, frame
    <2> QED
      BY <1>1, <2>1 DEF frame
  <1>3. CASE kind = "lost"
    <2>1. bytes = <<>>
      BY <1>3 DEF AnswersTo
    <2> QED
      BY <1>1, <1>3, <2>1
  <1>4. CASE kind = "short"
    <2>1. PICK n \in 1..FrameLen(r) - 1 : bytes = SubSeq(frame, 1, n)
      BY <1>4 DEF AnswersTo, frame
    <2>2. /\ bytes \in Seq(Byte) /\ Len(bytes) = n
          /\ \A p \in 1..n : bytes[p] = frame[p]
      BY <1>1, <2>1
    <2> QED
      BY <1>1, <1>4, <2>2 DEF frame
  <1>5. ASSUME NEW q \in 1..FrameLen(r), bytes = Damaged(frame, q)
        PROVE  /\ bytes \in Seq(Byte) /\ Len(bytes) = FrameLen(r)
               /\ \A p \in 1..Len(bytes) :
                    bytes[p] = frame[p] \/ (p = q /\ ~bytes[p].ok)
    <2> DEFINE bad == [frame[q] EXCEPT !.ok = FALSE]
    <2>1. bytes = [frame EXCEPT ![q] = bad]
      BY <1>5 DEF Damaged
    <2>2. bad \in Byte /\ ~bad.ok
      BY <1>1 DEF Byte
    <2> HIDE DEF bad
    <2> QED
      BY <1>1, <2>1, <2>2
  <1>6. CASE kind = "damaged"
    <2>1. PICK q \in 2..FrameLen(r) : bytes = Damaged(frame, q)
      BY <1>6 DEF AnswersTo, frame
    <2> QED
      BY <1>1, <1>5, <1>6, <2>1 DEF frame
  <1>7. CASE kind = "init"
    <2>1. bytes = Damaged(frame, 1)
      BY <1>7 DEF AnswersTo, frame
    <2> QED
      BY <1>1, <1>5, <1>7, <2>1 DEF frame
  <1> QED
    BY <1>2, <1>3, <1>4, <1>6, <1>7

-----------------------------------------------------------------------------
(* Type correctness.  The counter of failures stays within its threshold   *)
(* because at the threshold the monitor is disabled.                       *)
NotYetDisabled == host # "disabled" => failures < FailureThreshold

LEMMA TypeInit == Init => TypeOK /\ NotYetDisabled
  <1> SUFFICES ASSUME Init PROVE TypeOK /\ NotYetDisabled
    OBVIOUS
  <1>1. <<>> \in Seq(Byte) /\ Len(<<>>) = 0
    OBVIOUS
  <1>2. rdr \in Seq(Byte) /\ Len(rdr) <= 1
    BY <1>1 DEF Init
  <1>3. req \in Requests /\ failures \in 0..FailureThreshold /\ hits \in 0..MaxGlitches
    BY Sizes, LinkAssumption DEF Init
  <1>4. got \in Seq(Byte) /\ answer \in Seq(Byte) /\ delivered \in Seq(Byte)
    BY <1>1 DEF Init
  <1>5. NotYetDisabled
    BY LinkAssumption DEF Init, NotYetDisabled
  <1>6. /\ host \in {"idle", "init", "rest", "check", "disabled"}
        /\ result \in {"none", "ok", "failed"} /\ serial \in 0..1
    BY DEF Init
  <1>7. /\ overrun \in BOOLEAN /\ held \in BOOLEAN
        /\ hit \in BOOLEAN /\ astray \in BOOLEAN
    BY DEF Init
  <1> QED
    BY <1>2, <1>3, <1>4, <1>5, <1>6, <1>7 DEF TypeOK

(* The end of a read that fails.                                           *)
LEMMA Failing ==
  ASSUME TypeOK, NotYetDisabled, NEW r \in Requests, ReadFails(r),
         host # "disabled"
  PROVE  /\ host' \in {"idle", "init", "rest", "check", "disabled"}
         /\ failures' \in 0..FailureThreshold /\ NotYetDisabled'
         /\ result' \in {"none", "ok", "failed"} /\ got' \in Seq(Byte)
         /\ held' \in BOOLEAN
  <1>1. /\ host' \in {"idle", "disabled"} /\ failures' \in 0..FailureThreshold
        /\ NotYetDisabled' /\ result' = "failed" /\ got' = <<>>
    BY LinkAssumption DEF TypeOK, NotYetDisabled, ReadFails
  <1>2. held' = FALSE
    BY DEF ReadFails
  <1>3. got' \in Seq(Byte)
    BY <1>1
  <1> QED
    BY <1>1, <1>2, <1>3

(* What follows the first byte of the line.                                *)
LEMMA ByteArrives ==
  ASSUME TypeOK, Arrive
  PROVE  /\ answer \in Seq(Byte) /\ answer # <<>> /\ answer' = Tail(answer)
         /\ answer' \in Seq(Byte) /\ Len(answer) = Len(answer') + 1
         /\ rdr' \in Seq(Byte) /\ Len(rdr') <= 1 /\ overrun' \in BOOLEAN
         /\ answer[1] \in Byte
         /\ \A i \in 1..Len(answer') : answer'[i] = answer[i + 1]
         /\ IF rdr = <<>> THEN rdr' = <<answer[1]>> /\ overrun' = overrun
                          ELSE rdr' = rdr /\ overrun'
  <1>1. /\ answer \in Seq(Byte) /\ answer # <<>> /\ answer' = Tail(answer)
        /\ rdr \in Seq(Byte) /\ Len(rdr) <= 1 /\ overrun \in BOOLEAN
    BY DEF TypeOK, Arrive
  <1>2. /\ Tail(answer) \in Seq(Byte) /\ Len(answer) = Len(Tail(answer)) + 1
        /\ \A i \in 1..Len(Tail(answer)) : Tail(answer)[i] = answer[i + 1]
        /\ Head(answer) = answer[1] /\ answer[1] \in Byte
    BY <1>1
  <1>3. <<answer[1]>> \in Seq(Byte) /\ Len(<<answer[1]>>) <= 1
    BY <1>2
  <1>4. IF rdr = <<>> THEN rdr' = <<answer[1]>> /\ overrun' = overrun
                      ELSE rdr' = rdr /\ overrun'
    BY <1>2 DEF Arrive
  <1>5. rdr' \in Seq(Byte) /\ Len(rdr') <= 1
    BY <1>1, <1>3, <1>4, Zenon
  <1>6. overrun' \in BOOLEAN
    BY <1>1 DEF Arrive
  <1> QED
    BY <1>1, <1>2, <1>4, <1>5, <1>6

LEMMA NoiseByte == Noise \in Byte /\ <<Noise>> \in Seq(Byte)
  BY Sizes DEF Noise, Byte

LEMMA TypeStep == TypeOK /\ NotYetDisabled /\ [Next]_vars => TypeOK' /\ NotYetDisabled'
  <1> SUFFICES ASSUME TypeOK, NotYetDisabled, [Next]_vars
               PROVE  TypeOK' /\ NotYetDisabled'
    OBVIOUS
  <1>0. <<>> \in Seq(Byte) /\ req \in Requests /\ MaxGlitches \in Nat
    BY LinkAssumption DEF TypeOK
  <1> USE DEF hostVars, uartVars, lineVars, histVars
  <1>1. ASSUME NEW r \in Requests,
               NEW kind \in {"none"} \union (GlitchKinds \ {"noise", "unsent"}),
               Request(r, kind)
        PROVE  TypeOK' /\ NotYetDisabled'
    <2>1. kind \in {"none", "lost", "short", "damaged", "init", "late"}
      BY LinkAssumption
    <2>2. PICK bytes \in AnswersTo(r, kind) : answer' = answer \o bytes
      BY <1>1 DEF Request
    <2>3. bytes \in Seq(Byte)
      BY <2>1, <2>2, AnswerBytes DEF TypeOK
    <2>4. answer' \in Seq(Byte)
      BY <2>2, <2>3 DEF TypeOK
    <2>5. hits' \in 0..MaxGlitches
      BY <1>0, <1>1 DEF Request, Glitch, TypeOK
    <2> QED
      BY <1>0, <1>1, <2>4, <2>5 DEF Request, TypeOK, NotYetDisabled
  <1>2. ASSUME NEW r \in Requests, RequestUnsent(r)
        PROVE  TypeOK' /\ NotYetDisabled'
    <2>1. host # "disabled" /\ ReadFails(r)
      BY <1>2 DEF RequestUnsent
    <2>2. hits' \in 0..MaxGlitches
      BY <1>0, <1>2 DEF RequestUnsent, Glitch, TypeOK
    <2>3. /\ req' = r /\ delivered' = <<>> /\ hit'
          /\ UNCHANGED <<rdr, overrun, answer, serial, astray>>
      BY <1>2 DEF RequestUnsent
    <2>4. /\ host' \in {"idle", "init", "rest", "check", "disabled"}
          /\ failures' \in 0..FailureThreshold /\ NotYetDisabled'
          /\ result' \in {"none", "ok", "failed"} /\ got' \in Seq(Byte)
          /\ held' \in BOOLEAN
      BY <2>1, Failing
    <2>5. rdr' \in Seq(Byte) /\ Len(rdr') <= 1 /\ overrun' \in BOOLEAN
      BY <2>3, Zenon DEF TypeOK
    <2>6. answer' \in Seq(Byte) /\ serial' \in 0..1 /\ astray' \in BOOLEAN
      BY <2>3, Zenon DEF TypeOK
    <2>7. delivered' \in Seq(Byte) /\ req' \in Requests /\ hit' \in BOOLEAN
      BY <1>0, <2>3
    <2> QED
      BY <2>2, <2>4, <2>5, <2>6, <2>7, Zenon DEF TypeOK
  <1>3. CASE TakeInit
    BY <1>0, <1>3 DEF TakeInit, TypeOK, NotYetDisabled
  <1>4. CASE RefuseInit \/ Reject \/ Timeout \/ OverrunError
    <2>1. host # "disabled" /\ ReadFails(req)
      BY <1>4 DEF RefuseInit, Reject, Timeout, OverrunError, Waiting
    <2>2. rdr' \in {rdr, <<>>} /\ overrun' \in {overrun, FALSE}
      BY <1>4 DEF RefuseInit, Reject, Timeout, OverrunError
    <2>3. /\ rdr \in Seq(Byte) /\ Len(rdr) <= 1 /\ overrun \in BOOLEAN
          /\ <<>> \in Seq(Byte) /\ Len(<<>>) <= 1
      BY DEF TypeOK
    <2>5. rdr' \in Seq(Byte) /\ Len(rdr') <= 1
      BY <2>2, <2>3, Zenon
    <2>6. overrun' \in BOOLEAN
      BY <2>2, <2>3
    <2>4. UNCHANGED <<req, answer, serial, delivered, hit, hits, astray>>
      BY <1>4 DEF RefuseInit, Reject, Timeout, OverrunError
    <2>7. /\ host' \in {"idle", "init", "rest", "check", "disabled"}
          /\ failures' \in 0..FailureThreshold /\ NotYetDisabled'
          /\ result' \in {"none", "ok", "failed"} /\ got' \in Seq(Byte)
          /\ held' \in BOOLEAN
      BY <1>0, <2>1, Failing
    <2>8. delivered' \in Seq(Byte) /\ hits' \in 0..MaxGlitches /\ req' \in Requests
      BY <2>4 DEF TypeOK
    <2>9. answer' \in Seq(Byte) /\ serial' \in 0..1
      BY <2>4 DEF TypeOK
    <2>10. hit' \in BOOLEAN /\ astray' \in BOOLEAN
      BY <2>4 DEF TypeOK
    <2> QED
      BY <2>5, <2>6, <2>7, <2>8, <2>9, <2>10, Zenon DEF TypeOK
  <1>5. CASE TakeRest
    <2>1. got \o rdr \in Seq(Byte)
      BY DEF TypeOK
    <2> QED
      BY <1>0, <1>5, <2>1 DEF TakeRest, TypeOK, NotYetDisabled
  <1>6. CASE Accept
    <2>1. host' = "idle" /\ result' = "ok" /\ delivered' = got /\ got' = <<>>
      BY <1>6 DEF Accept
    <2>2. held' \in BOOLEAN
      BY <1>6 DEF Accept
    <2>3. /\ failures' \in 0..FailureThreshold /\ hits' \in 0..MaxGlitches
          /\ NotYetDisabled'
      BY <1>0, <1>6, LinkAssumption DEF Accept, TypeOK, NotYetDisabled
    <2>4. UNCHANGED <<req, rdr, overrun, answer, serial, hit, astray>>
      BY <1>6 DEF Accept
    <2>5. /\ host' \in {"idle", "init", "rest", "check", "disabled"}
          /\ result' \in {"none", "ok", "failed"}
          /\ got' \in Seq(Byte) /\ delivered' \in Seq(Byte)
      BY <1>0, <2>1 DEF TypeOK
    <2> QED
      BY <2>2, <2>3, <2>4, <2>5, Zenon DEF TypeOK
  <1>7. CASE Arrive
    <2>1. UNCHANGED <<host, req, got, failures, held, serial, result, delivered,
                      hit, hits, astray>>
      BY <1>7 DEF Arrive
    <2>2. /\ rdr' \in Seq(Byte) /\ Len(rdr') <= 1 /\ overrun' \in BOOLEAN
          /\ answer' \in Seq(Byte)
      BY <1>7, ByteArrives
    <2> QED
      BY <2>1, <2>2, Zenon DEF TypeOK, NotYetDisabled
  <1>8. CASE Disturb
    <2>1. hits' \in 0..MaxGlitches
      BY <1>0, <1>8 DEF Disturb, Glitch, TypeOK
    <2>6. rdr' = rdr \/ rdr' = <<Noise>>
      BY <1>8, Zenon DEF Disturb
    <2>7. overrun' = overrun \/ overrun' = TRUE
      BY <1>8, Zenon DEF Disturb
    <2>8. Len(<<Noise>>) <= 1
      OBVIOUS
    <2>5. rdr \in Seq(Byte) /\ Len(rdr) <= 1
      BY DEF TypeOK
    <2>3. rdr' \in Seq(Byte) /\ Len(rdr') <= 1
      BY <2>5, <2>6, <2>8, NoiseByte, Zenon
    <2>4. overrun' \in BOOLEAN
      BY <2>7, Zenon DEF TypeOK
    <2>9. /\ UNCHANGED <<host, req, got, failures, answer, held, serial, result,
                         delivered, hit>>
          /\ astray' \in BOOLEAN
      BY <1>8 DEF Disturb
    <2> QED
      BY <2>1, <2>3, <2>4, <2>9, Zenon DEF TypeOK, NotYetDisabled
  <1>9. CASE UNCHANGED vars
    BY <1>9 DEF vars, TypeOK, NotYetDisabled
  <1> QED
    BY <1>1, <1>2, <1>3, <1>4, <1>5, <1>6, <1>7, <1>8, <1>9 DEF Next

THEOREM TypeCorrect == Spec => []TypeOK
  BY TypeInit, TypeStep, PTL DEF Spec
-----------------------------------------------------------------------------
(* What has been received of the answer being read: at least its first     *)
(* byte, which announced the right size, and never more than that size.    *)
Received ==
  /\ host = "rest" => Len(got) \in 1..FrameLen(req) - 1
  /\ host = "check" => Len(got) = FrameLen(req)
  /\ host \in {"rest", "check"} => MayAnnounce(got[1], req.size)

LEMMA ReceivedStep == TypeOK /\ Received /\ [Next]_vars => Received'
  <1> SUFFICES ASSUME TypeOK, Received, [Next]_vars
               PROVE  Received'
    OBVIOUS
  <1>0. req \in Requests /\ got \in Seq(Byte) /\ rdr \in Seq(Byte) /\ Len(rdr) <= 1
    BY DEF TypeOK
  <1>1. CASE host' \notin {"rest", "check"}
    BY <1>1 DEF Received
  <1>2. CASE TakeInit
    <2>1. host' = "rest" /\ got' = rdr /\ rdr # <<>> /\ req' = req
          /\ MayAnnounce(rdr[1], req.size)
      BY <1>2 DEF TakeInit
    <2>2. Len(got') \in 1..FrameLen(req') - 1
      BY <1>0, <2>1, Sizes
    <2> QED
      BY <2>1, <2>2 DEF Received
  <1>3. CASE TakeRest
    <2>1. /\ host = "rest" /\ rdr # <<>> /\ got' = got \o rdr /\ req' = req
          /\ host' = IF Len(got) + 1 = FrameLen(req) THEN "check" ELSE "rest"
      BY <1>3 DEF TakeRest, ReadLen
    <2>2. Len(got) \in 1..FrameLen(req) - 1 /\ MayAnnounce(got[1], req.size)
      BY <2>1 DEF Received
    <2>3. Len(got') = Len(got) + 1 /\ got'[1] = got[1]
      BY <1>0, <2>1, <2>2
    <2>4. FrameLen(req) \in Nat
      BY <1>0, Sizes
    <2>5. MayAnnounce(got'[1], req'.size)
      BY <2>1, <2>2, <2>3, Zenon
    <2>6. /\ host' = "rest" => Len(got') \in 1..FrameLen(req') - 1
          /\ host' = "check" => Len(got') = FrameLen(req')
      BY <2>1, <2>2, <2>3, <2>4
    <2> QED
      BY <2>5, <2>6, Zenon DEF Received
  <1>4. CASE UNCHANGED <<host, got, req>>
    BY <1>4 DEF Received
  <1>5. \/ host' \notin {"rest", "check"} \/ TakeInit \/ TakeRest
        \/ UNCHANGED <<host, got, req>>
    BY DEF Next, vars, hostVars, Request, RequestUnsent, RefuseInit, Accept,
           Reject, Timeout, OverrunError, Arrive, Disturb, ReadFails
  <1> QED
    BY <1>1, <1>2, <1>3, <1>4, <1>5

(* The checksum and the register leave nothing but the data that was asked *)
(* for, all of it from one answer.                                         *)
LEMMA AcceptedIsAsked ==
  ASSUME TypeOK, Received, host = "check", CrcHolds(got), FieldsMatch(got, req)
  PROVE  /\ got[2].serial \in 0..1
         /\ \A p \in 2..FrameLen(req) : got[p] = Frame(req, got[2].serial)[p]
         /\ Len(got) = FrameLen(req)
  <1>0. req \in Requests /\ got \in Seq(Byte)
    BY DEF TypeOK
  <1>1. Len(got) = FrameLen(req) /\ FrameLen(req) \in Nat /\ FrameLen(req) >= 4
    BY <1>0, Sizes DEF Received
  <1>2. \A p \in 1..FrameLen(req) : got[p] \in Byte
    BY <1>0, <1>1
  <1>3. \A p \in 1..FrameLen(req) : got[p].ok /\ got[p].pos = p
    BY <1>1 DEF CrcHolds
  <1>4. got[1].of.size = req.size
    BY <1>1, <1>3 DEF Received, MayAnnounce
  <1>5. \A p \in 2..FrameLen(req) :
          got[p].of = got[2].of /\ got[p].serial = got[2].serial
    BY <1>1 DEF CrcHolds
  <1>6. got[2].of \in Requests /\ got[2].serial \in 0..1
    BY <1>1, <1>2 DEF Byte
  <1>7. got[2].of.size = req.size /\ got[2].of.reg = req.reg
    BY <1>1, <1>4 DEF CrcHolds, FieldsMatch
  <1>8. got[2].of = req
    <2>1. /\ req = [reg |-> req.reg, size |-> req.size]
          /\ got[2].of = [reg |-> got[2].of.reg, size |-> got[2].of.size]
      BY <1>0, <1>6, Sizes
    <2> QED
      BY <1>7, <2>1
  <1>9. ASSUME NEW p \in 2..FrameLen(req)
        PROVE  got[p] = Frame(req, got[2].serial)[p]
    <2>1. /\ p \in 1..FrameLen(req) /\ got[p] \in Byte /\ got[p].ok /\ got[p].pos = p
          /\ got[p].of = req /\ got[p].serial = got[2].serial
      BY <1>2, <1>3, <1>5, <1>8
    <2>2. got[p] = [of |-> req, serial |-> got[2].serial, pos |-> p, ok |-> TRUE]
      BY <2>1 DEF Byte
    <2> QED
      BY <1>0, <1>6, <2>1, <2>2, FrameBytes
  <1> QED
    BY <1>1, <1>6, <1>9

(* No successful read delivers another register's data, or pieces of two   *)
(* answers put together, whatever happens on the line.                     *)
THEOREM NoForeign == Spec => []NoForeignAnswer
  <1>1. Init => Received /\ NoForeignAnswer
    BY DEF Init, Received, NoForeignAnswer
  <1>2. TypeOK /\ Received /\ NoForeignAnswer /\ [Next]_vars => NoForeignAnswer'
    <2> SUFFICES ASSUME TypeOK, Received, NoForeignAnswer, [Next]_vars
                 PROVE  NoForeignAnswer'
      OBVIOUS
    <2>1. CASE result' # "ok"
      BY <2>1 DEF NoForeignAnswer
    <2>2. CASE Accept
      <3>1. /\ host = "check" /\ CrcHolds(got) /\ FieldsMatch(got, req)
            /\ delivered' = got /\ req' = req
        BY <2>2 DEF Accept
      <3>2. /\ got[2].serial \in 0..1
            /\ \A p \in 2..FrameLen(req) : got[p] = Frame(req, got[2].serial)[p]
        BY <3>1, AcceptedIsAsked
      <3>3. \E s \in 0..1 : \A p \in 2..FrameLen(req) : got[p] = Frame(req, s)[p]
        BY <3>2, Zenon
      <3>4. \E s \in 0..1 : \A p \in 2..FrameLen(req') : delivered'[p] = Frame(req', s)[p]
        BY <3>1, <3>3, Zenon
      <3> QED
        BY <3>4, Zenon DEF NoForeignAnswer
    <2>3. CASE UNCHANGED <<result, delivered, req>>
      BY <2>3 DEF NoForeignAnswer
    <2>4. result' # "ok" \/ Accept \/ UNCHANGED <<result, delivered, req>>
      BY DEF Next, vars, hostVars, histVars, Request, RequestUnsent, TakeInit, RefuseInit,
             TakeRest, Reject, Timeout, OverrunError, Arrive, Disturb, ReadFails
    <2> QED
      BY <2>1, <2>2, <2>3, <2>4
  <1> QED
    BY <1>1, <1>2, TypeCorrect, ReceivedStep, PTL DEF Spec
-----------------------------------------------------------------------------
(* As long as nothing has gone astray: between two reads nothing is left   *)
(* in the receiver or on the line, and during a read what has been taken,  *)
(* what the receiver holds and what is still to come are, in this order,   *)
(* the bytes of the answer, short or damaged only if something hit it, and *)
(* never in its first byte.                                                *)
Reading == host \in {"init", "rest", "check"}

Mine(b, p) == b = Frame(req, serial)[p] \/ (hit /\ p # 1 /\ ~b.ok)

InPlace ==
  /\ \A p \in 1..Len(got) : Mine(got[p], p)
  /\ rdr # <<>> => Mine(rdr[1], Len(got) + 1)
  /\ \A i \in 1..Len(answer) : Mine(answer[i], Len(got) + Len(rdr) + i)

Pending == Len(got) + Len(rdr) + Len(answer)

Complete ==
  /\ Pending <= FrameLen(req)
  /\ ~hit => Pending = FrameLen(req)

Tidy ==
  /\ ~overrun /\ ~held
  /\ ~Reading => rdr = <<>> /\ answer = <<>>
  /\ Reading => InPlace /\ Complete
  /\ host = "init" => got = <<>>

Truthful ==
  /\ result = "failed" => hit
  /\ result = "ok" => delivered = Frame(req, serial)

Clean == ~astray => Tidy /\ Truthful

LEMMA OneAppended ==
  ASSUME NEW S, NEW s \in Seq(S), NEW t \in Seq(S), t # <<>>, Len(t) <= 1
  PROVE  /\ Len(t) = 1 /\ Len(s \o t) = Len(s) + 1
         /\ \A p \in 1..Len(s) : (s \o t)[p] = s[p]
         /\ (s \o t)[Len(s) + 1] = t[1]
  <1>0. Len(t) \in Nat \ {0}
    BY EmptySeq, Zenon
  <1>1. Len(t) = 1 /\ Len(s) \in Nat
    <2>1. Len(s) \in Nat
      BY LenProperties, Zenon
    <2>2. \A n \in Nat \ {0} : n <= 1 => n = 1
      OBVIOUS
    <2> QED
      BY <1>0, <2>1, <2>2, Zenon
  <1>2. /\ Len(s \o t) = Len(s) + Len(t)
        /\ \A p \in 1..Len(s) + Len(t) :
             (s \o t)[p] = IF p <= Len(s) THEN s[p] ELSE t[p - Len(s)]
    BY ConcatProperties
  <1> QED
    BY <1>1, <1>2

LEMMA OnceAstray == [Next]_vars /\ ~astray' => ~astray
  BY DEF Next, vars, histVars, Request, RequestUnsent, TakeInit, RefuseInit, TakeRest,
         Accept, Reject, Timeout, OverrunError, Arrive, Disturb

(* A request finds the line empty, and its answer fills it.                *)
LEMMA CleanRequest ==
  ASSUME TypeOK, Tidy, ~astray', NEW r \in Requests,
         NEW kind \in {"none"} \union (GlitchKinds \ {"noise", "unsent"}),
         Request(r, kind)
  PROVE  Tidy' /\ Truthful'
  <1>1. kind \in {"none", "lost", "short", "damaged"}
    BY LinkAssumption DEF Request
  <1>2. rdr = <<>> /\ answer = <<>> /\ ~overrun
    BY DEF Request, Tidy, Reading
  <1>3. PICK bytes \in AnswersTo(r, kind) : answer' = answer \o bytes
    BY DEF Request
  <1>4. serial \in 0..1 /\ 1 - serial \in 0..1
    BY DEF TypeOK
  <1>5. /\ bytes \in Seq(Byte) /\ Len(bytes) <= FrameLen(r)
        /\ kind = "none" => bytes = Frame(r, 1 - serial)
        /\ \A p \in 1..Len(bytes) :
             \/ bytes[p] = Frame(r, 1 - serial)[p]
             \/ kind = "damaged" /\ p # 1 /\ ~bytes[p].ok
    <2>1. kind \in {"none", "lost", "short", "damaged", "init", "late"}
      BY <1>1
    <2> QED
      BY <1>1, <1>3, <1>4, <2>1, AnswerBytes
  <1>6. answer' = bytes
    BY <1>2, <1>3, <1>5
  <1>7. /\ req' = r /\ serial' = 1 - serial /\ got' = <<>> /\ rdr' = <<>>
        /\ host' = "init" /\ result' = "none" /\ overrun' = overrun
        /\ hit' = (kind # "none") /\ held' = (kind = "late")
    BY <1>2 DEF Request, uartVars
  <1>8. InPlace'
    <2>1. ASSUME NEW i \in 1..Len(bytes) PROVE Mine(bytes[i], i)'
      BY <1>5, <1>7 DEF Mine
    <2>2. Len(got') = 0 /\ Len(rdr') = 0
      BY <1>7
    <2>3. \A i \in 1..Len(bytes) : Len(got') + Len(rdr') + i = i
      BY <2>2
    <2>4. (\A i \in 1..Len(answer) : Mine(answer[i], Len(got) + Len(rdr) + i))'
      BY <1>6, <2>1, <2>3
    <2> QED
      BY <1>7, <2>2, <2>4 DEF InPlace
  <1>9. Complete'
    <2>1. Pending' = Len(bytes)
      BY <1>5, <1>6, <1>7 DEF Pending
    <2>2. kind = "none" => Len(bytes) = FrameLen(r)
      BY <1>4, <1>5, FrameBytes
    <2> QED
      BY <1>5, <1>7, <2>1, <2>2 DEF Complete
  <1>10. ~overrun' /\ ~held'
    BY <1>1, <1>2, <1>7
  <1>11. Tidy'
    BY <1>7, <1>8, <1>9, <1>10 DEF Tidy, Reading
  <1> QED
    BY <1>7, <1>11 DEF Truthful

(* A byte of the answer moves on, keeping its place.                       *)
LEMMA CleanMove ==
  ASSUME TypeOK, Received, Tidy, Arrive \/ TakeInit \/ TakeRest
  PROVE  Tidy'
  <1>0. /\ got \in Seq(Byte) /\ rdr \in Seq(Byte) /\ Len(rdr) <= 1
        /\ answer \in Seq(Byte) /\ req \in Requests
    BY DEF TypeOK
  <1>1. UNCHANGED <<req, serial, hit, held>>
    BY DEF Arrive, TakeInit, TakeRest, hostVars, lineVars, histVars
  <1>2. Reading
    BY DEF Arrive, TakeInit, TakeRest, Tidy, Reading
  <1>3. InPlace /\ Complete /\ ~overrun /\ ~held
    BY <1>2 DEF Tidy
  <1>4. \A b, p : Mine(b, p)' <=> Mine(b, p)
    BY <1>1 DEF Mine
  <1>5. CASE Arrive
    <2>1. rdr = <<>>
      <3>1. CASE host = "check"
        <4>1. Len(got) = FrameLen(req) /\ FrameLen(req) \in Nat
          BY <1>0, <3>1, Sizes DEF Received
        <4>2. Len(answer) = 0
          BY <1>0, <1>3, <4>1 DEF Complete, Pending
        <4> QED
          BY <1>0, <1>5, <4>2 DEF Arrive
      <3>2. CASE host # "check"
        BY <1>2, <1>5, <3>2 DEF Arrive, Reading, Waiting
      <3> QED
        BY <3>1, <3>2
    <2>2. /\ answer # <<>> /\ answer' \in Seq(Byte) /\ Len(answer) = Len(answer') + 1
          /\ rdr' = <<answer[1]>> /\ overrun' = overrun
          /\ \A i \in 1..Len(answer') : answer'[i] = answer[i + 1]
      BY <1>5, <2>1, ByteArrives
    <2>3. host' = host /\ got' = got
      BY <1>5 DEF Arrive, hostVars
    <2>4. Len(rdr) = 0 /\ Len(rdr') = 1 /\ rdr'[1] = answer[1]
      BY <2>1, <2>2
    <2>5. \A i \in 1..Len(answer) : Mine(answer[i], Len(got) + i)
      BY <1>0, <1>3, <2>4 DEF InPlace
    <2>6. Mine(rdr'[1], Len(got') + 1)
      BY <1>0, <2>2, <2>3, <2>4, <2>5
    <2>7. \A i \in 1..Len(answer') : Mine(answer'[i], Len(got') + Len(rdr') + i)
      <3> SUFFICES ASSUME NEW i \in 1..Len(answer')
                   PROVE  Mine(answer'[i], Len(got') + Len(rdr') + i)
        OBVIOUS
      <3>1. i + 1 \in 1..Len(answer) /\ answer'[i] = answer[i + 1]
        BY <1>0, <2>2
      <3>2. Mine(answer[i + 1], Len(got) + (i + 1))
        BY <2>5, <3>1
      <3>3. Len(got) + (i + 1) = Len(got') + Len(rdr') + i
        BY <1>0, <2>3, <2>4, <3>1
      <3> QED
        BY <3>1, <3>2, <3>3
    <2>8. InPlace'
      BY <1>3, <1>4, <2>3, <2>6, <2>7 DEF InPlace
    <2>9. Pending' = Pending
      BY <1>0, <2>2, <2>3, <2>4 DEF Pending
    <2>10. Complete'
      BY <1>1, <1>3, <2>9 DEF Complete
    <2> QED
      BY <1>1, <1>2, <1>3, <2>2, <2>3, <2>8, <2>10 DEF Tidy, Reading
  <1>6. CASE TakeInit \/ TakeRest
    <2>1. /\ rdr # <<>> /\ rdr' = <<>> /\ answer' = answer /\ overrun' = overrun
          /\ host' \in {"rest", "check"}
      BY <1>6 DEF TakeInit, TakeRest, lineVars
    <2>2. got' = got \o rdr
      BY <1>0, <1>6 DEF TakeInit, TakeRest, Tidy
    <2>3. /\ Len(rdr) = 1 /\ Len(rdr') = 0 /\ Len(got') = Len(got) + 1
          /\ \A p \in 1..Len(got) : got'[p] = got[p]
          /\ got'[Len(got) + 1] = rdr[1]
      <3>1. Len(rdr') = 0
        BY <2>1
      <3> QED
        BY <1>0, <2>1, <2>2, <3>1, OneAppended
    <2>4. Mine(rdr[1], Len(got) + 1)
      BY <1>3, <2>1 DEF InPlace
    <2>5. \A p \in 1..Len(got') : Mine(got'[p], p)
      <3> SUFFICES ASSUME NEW p \in 1..Len(got') PROVE Mine(got'[p], p)
        OBVIOUS
      <3>1. CASE p = Len(got) + 1
        BY <2>3, <2>4, <3>1
      <3>2. CASE p # Len(got) + 1
        <4>1. p \in 1..Len(got)
          BY <1>0, <2>3, <3>2
        <4> QED
          BY <1>3, <2>3, <4>1 DEF InPlace
      <3> QED
        BY <3>1, <3>2
    <2>6. Len(got') + Len(rdr') = Len(got) + Len(rdr)
      BY <1>0, <2>3
    <2>7. \A i \in 1..Len(answer') : Mine(answer'[i], Len(got') + Len(rdr') + i)
      BY <1>3, <2>1, <2>6 DEF InPlace
    <2>8. InPlace'
      BY <1>4, <2>1, <2>5, <2>7 DEF InPlace
    <2>9. Pending' = Pending
      BY <1>0, <2>1, <2>6 DEF Pending
    <2>10. Complete'
      BY <1>1, <1>3, <2>9 DEF Complete
    <2> QED
      BY <1>1, <1>3, <2>1, <2>8, <2>10 DEF Tidy, Reading
  <1> QED
    BY <1>5, <1>6

(* Once as many bytes are taken as were asked for, there are no others.    *)
LEMMA Drained ==
  ASSUME TypeOK, Received, Tidy, host = "check"
  PROVE  rdr = <<>> /\ answer = <<>> /\ Len(got) = FrameLen(req) /\ InPlace
  <1>1. /\ got \in Seq(Byte) /\ rdr \in Seq(Byte) /\ answer \in Seq(Byte)
        /\ req \in Requests
    BY DEF TypeOK
  <1>2. InPlace /\ Complete /\ Len(got) = FrameLen(req)
    BY DEF Tidy, Reading, Received
  <1>3. Len(got) \in Nat /\ Len(rdr) \in Nat /\ Len(answer) \in Nat
    BY <1>1, LenProperties, Zenon
  <1>4. Len(rdr) = 0 /\ Len(answer) = 0
    BY <1>2, <1>3 DEF Complete, Pending
  <1>5. \A t \in Seq(Byte) : Len(t) = 0 => t = <<>>
    BY EmptySeq
  <1> QED
    BY <1>1, <1>2, <1>4, <1>5

(* A whole answer with its bytes in place passes both checks.              *)
LEMMA IntactAccepted ==
  ASSUME TypeOK, Len(got) = FrameLen(req),
         \A p \in 1..Len(got) : got[p] = Frame(req, serial)[p]
  PROVE  got = Frame(req, serial) /\ CrcHolds(got) /\ FieldsMatch(got, req)
  <1>1. /\ req \in Requests /\ serial \in 0..1 /\ got \in Seq(Byte)
        /\ FrameLen(req) \in Nat /\ FrameLen(req) >= 4
    BY Sizes DEF TypeOK
  <1>2. /\ Frame(req, serial) \in Seq(Byte)
        /\ Len(Frame(req, serial)) = FrameLen(req)
        /\ \A p \in 1..FrameLen(req) :
             got[p] = [of |-> req, serial |-> serial, pos |-> p, ok |-> TRUE]
    BY <1>1, FrameBytes
  <1>3. got = Frame(req, serial)
    BY <1>1, <1>2, SeqEqual
  <1>4. CrcHolds(got)
    BY <1>1, <1>2 DEF CrcHolds
  <1>5. FieldsMatch(got, req)
    BY <1>1, <1>2 DEF FieldsMatch
  <1> QED
    BY <1>3, <1>4, <1>5

(* A read fails only if something hit its answer, and leaves nothing.      *)
LEMMA CleanFailure ==
  ASSUME TypeOK, Received, Tidy, RefuseInit \/ Reject \/ Timeout \/ OverrunError
  PROVE  Tidy' /\ Truthful'
  <1>0. /\ got \in Seq(Byte) /\ req \in Requests /\ serial \in 0..1
        /\ FrameLen(req) \in Nat /\ FrameLen(req) >= 4
    BY Sizes DEF TypeOK
  <1>1. Reading
    BY DEF RefuseInit, Reject, Timeout, OverrunError, Waiting, Reading
  <1>2. InPlace /\ Complete /\ ~overrun /\ ~held
    BY <1>1 DEF Tidy
  <1>3. ~RefuseInit
    <2> SUFFICES ASSUME RefuseInit PROVE FALSE
      OBVIOUS
    <2>1. got = <<>> /\ rdr # <<>> /\ MayRefuse(rdr[1], req.size)
      BY DEF RefuseInit, Tidy
    <2>2. Mine(rdr[1], 1)
      BY <1>2, <2>1 DEF InPlace
    <2>3. rdr[1] = [of |-> req, serial |-> serial, pos |-> 1, ok |-> TRUE]
      BY <1>0, <2>2, FrameBytes DEF Mine
    <2> QED
      BY <2>1, <2>3 DEF MayRefuse
  <1>4. ~OverrunError
    BY <1>2 DEF OverrunError
  <1>5. rdr = <<>> /\ answer = <<>> /\ hit
    <2>1. CASE Reject
      <3>1. host = "check" /\ ~(CrcHolds(got) /\ FieldsMatch(got, req))
        BY <2>1 DEF Reject
      <3>2. rdr = <<>> /\ answer = <<>> /\ Len(got) = FrameLen(req)
        BY <3>1, Drained
      <3>3. ~hit => \A p \in 1..Len(got) : got[p] = Frame(req, serial)[p]
        BY <1>2 DEF InPlace, Mine
      <3> QED
        BY <3>1, <3>2, <3>3, IntactAccepted
    <2>2. CASE Timeout
      <3>1. Waiting /\ rdr = <<>> /\ answer = <<>>
        BY <1>2, <2>2 DEF Timeout
      <3>2. Len(rdr) = 0 /\ Len(answer) = 0
        BY <3>1
      <3>3. Len(got) \in Nat /\ Len(got) < FrameLen(req)
        <4>1. CASE host = "init"
          BY <1>0, <4>1 DEF Tidy
        <4>2. CASE host = "rest"
          BY <1>0, <4>2 DEF Received
        <4> QED
          BY <3>1, <4>1, <4>2 DEF Waiting
      <3>4. Pending # FrameLen(req)
        BY <1>0, <3>2, <3>3 DEF Pending
      <3> QED
        BY <1>2, <3>1, <3>4 DEF Complete
    <2> QED
      BY <1>3, <1>4, <2>1, <2>2
  <1>6. Reject \/ Timeout
    BY <1>3, <1>4
  <1>7. /\ rdr' = <<>> /\ answer' = <<>> /\ hit' = hit /\ overrun' = overrun
        /\ result' = "failed" /\ held' = FALSE /\ host' \in {"idle", "disabled"}
    BY <1>5, <1>6 DEF Reject, Timeout, ReadFails, uartVars
  <1> QED
    BY <1>2, <1>5, <1>7 DEF Tidy, Reading, Truthful

(* A read that succeeds delivers its own answer, and leaves nothing.       *)
LEMMA CleanSuccess ==
  ASSUME TypeOK, Received, Tidy, Accept
  PROVE  Tidy' /\ Truthful'
  <1>1. host = "check" /\ CrcHolds(got) /\ ~overrun
    BY DEF Accept, Tidy
  <1>2. rdr = <<>> /\ answer = <<>> /\ Len(got) = FrameLen(req) /\ InPlace
    BY <1>1, Drained
  <1>3. \A p \in 1..Len(got) : got[p] = Frame(req, serial)[p]
    BY <1>1, <1>2 DEF InPlace, Mine, CrcHolds
  <1>4. got = Frame(req, serial)
    BY <1>2, <1>3, IntactAccepted
  <1>5. /\ host' = "idle" /\ result' = "ok" /\ delivered' = got /\ held' = FALSE
        /\ UNCHANGED <<req, rdr, overrun, answer, serial>>
    BY DEF Accept, uartVars
  <1>6. (delivered = Frame(req, serial))'
    BY <1>4, <1>5
  <1>7. Truthful'
    BY <1>5, <1>6 DEF Truthful
  <1> QED
    BY <1>1, <1>2, <1>5, <1>7 DEF Tidy, Reading

LEMMA CleanStep == TypeOK /\ Received /\ Clean /\ [Next]_vars => Clean'
  <1> SUFFICES ASSUME TypeOK, Received, Clean, [Next]_vars, ~astray'
               PROVE  Tidy' /\ Truthful'
    BY DEF Clean
  <1>0. Tidy /\ Truthful
    BY OnceAstray DEF Clean
  <1>1. ASSUME NEW r \in Requests,
               NEW kind \in {"none"} \union (GlitchKinds \ {"noise", "unsent"}),
               Request(r, kind)
        PROVE  Tidy' /\ Truthful'
    BY <1>0, <1>1, CleanRequest
  <1>2. ASSUME NEW r \in Requests, RequestUnsent(r)
        PROVE  Tidy' /\ Truthful'
    <2>1. /\ host = "idle" /\ host' \in {"idle", "disabled"} /\ result' = "failed"
          /\ hit' = TRUE /\ held' = FALSE /\ UNCHANGED <<rdr, overrun, answer>>
      BY <1>2 DEF RequestUnsent, ReadFails, uartVars
    <2>2. rdr = <<>> /\ answer = <<>> /\ ~overrun
      BY <1>0, <2>1 DEF Tidy, Reading
    <2> QED
      BY <2>1, <2>2 DEF Tidy, Reading, Truthful
  <1>3. CASE Arrive \/ TakeInit \/ TakeRest
    <2>1. UNCHANGED <<result, hit, delivered, req, serial>>
      BY <1>3 DEF Arrive, TakeInit, TakeRest, hostVars, lineVars, histVars
    <2>2. Truthful'
      BY <1>0, <2>1 DEF Truthful
    <2> QED
      BY <1>0, <1>3, <2>2, CleanMove
  <1>4. CASE RefuseInit \/ Reject \/ Timeout \/ OverrunError
    BY <1>0, <1>4, CleanFailure
  <1>5. CASE Accept
    BY <1>0, <1>5, CleanSuccess
  <1>6. CASE Disturb
    BY <1>6 DEF Disturb
  <1>7. CASE UNCHANGED vars
    BY <1>0, <1>7 DEF vars, hostVars, uartVars, lineVars, histVars, Tidy, Truthful,
       Reading, InPlace, Complete, Pending, Mine
  <1> QED
    BY <1>1, <1>2, <1>3, <1>4, <1>5, <1>6, <1>7 DEF Next

(* As long as nothing went astray a read fails only because of what        *)
(* happened to its own answer ...                                          *)
THEOREM CleanReads == Spec => []CleanReadSucceeds
  <1>1. Init => Received /\ Clean
    BY DEF Init, Received, Clean, Tidy, Truthful, Reading
  <1>2. Clean => CleanReadSucceeds
    BY DEF Clean, Truthful, CleanReadSucceeds
  <1> QED
    BY <1>1, <1>2, TypeCorrect, ReceivedStep, CleanStep, PTL DEF Spec

(* ... and one that succeeds delivers the answer to that very request.     *)
THEOREM OwnAnswers == Spec => []OwnAnswer
  <1>1. Init => Received /\ Clean
    BY DEF Init, Received, Clean, Tidy, Truthful, Reading
  <1>2. Clean => OwnAnswer
    BY DEF Clean, Truthful, OwnAnswer
  <1> QED
    BY <1>1, <1>2, TypeCorrect, ReceivedStep, CleanStep, PTL DEF Spec
=============================================================================
