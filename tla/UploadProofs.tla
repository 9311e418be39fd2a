---------------------------- MODULE UploadProofs ----------------------------
(***************************************************************************)
(* Proofs about the SDK's client: the retrying transport, the upload that  *)
(* runs on it, and the sessions.                                           *)
(*   - HttpRetry keeps the promise of DeliveryLog, for every number of     *)
(*     calls and of retries.                                               *)
(*   - Upload: what upload_traces reports is in the hosted store, and      *)
(*     every run fills at most one copy of a local trace; its invariant is *)
(*     UploadInv on top of the transport's.                                *)
(*   - Session: what the settings ask for holds of every text (SafeInv),   *)
(*     names, selections and citations meet in the store (EdgesInv), a     *)
(*     cipher changes nothing but what is stored (CipherInv), and grades   *)
(*     agree with the judgements beside them (GradeInv).                   *)
(***************************************************************************)
EXTENDS Upload, Session, FiniteSetTheorems, SequenceTheorems, WellFoundedInduction, TLAPS

-----------------------------------------------------------------------------
(* The transport.                                                          *)

\* Beside the checked invariants: an "ok" tells the truth, so the answer a
\* call returns with is a witness of its application.
IndInv == TypeOK /\ AcknowledgedIsApplied /\ AppliedWithinTries /\ AnswersAreTrue

LEMMA InitHolds == Init => IndInv
BY RetryAssumption
   DEF Init, IndInv, TypeOK, AcknowledgedIsApplied, AppliedWithinTries, AnswersAreTrue,
       Acked, Calls, Tries, Requests

LEMMA CallStep == IndInv /\ Call => IndInv'
<1> SUFFICES ASSUME IndInv, Call PROVE IndInv'
  OBVIOUS
<1> USE RetryAssumption DEF IndInv, Call, Calls, Tries, Requests
<1>1. TypeOK'
  BY DEF TypeOK
<1>2. AcknowledgedIsApplied'
  <2>1. Acked' = Acked
    BY DEF TypeOK, Acked, AnswersAreTrue
  <2> QED BY <2>1 DEF AcknowledgedIsApplied
<1>3. AppliedWithinTries'
  BY DEF TypeOK, AppliedWithinTries
<1>4. AnswersAreTrue'
  BY DEF TypeOK, AnswersAreTrue
<1> QED BY <1>1, <1>2, <1>3, <1>4

\* A call that ends, or is tried again: no statement about the server changes.
LEMMA RetryOrRaiseStep ==
  ASSUME IndInv, phase # "idle", RetryOrRaise \/ Raise,
         answers' \subseteq answers, UNCHANGED <<issued, network, applied>>
  PROVE  IndInv'
<1>0. issued \in Calls /\ tries[issued] \in 0..Retries
  BY DEF IndInv, TypeOK, Tries
<1>a. tries[issued] < Retries => tries[issued] + 1 \in 0..Retries
  BY <1>0, RetryAssumption
<1>b. /\ phase' \in {"idle", "sending"}
      /\ tries' = tries \/ (tries' = [tries EXCEPT ![issued] = @ + 1] /\ tries[issued] + 1 \in Tries)
      /\ failed' = failed \/ (failed' = failed \cup {issued} /\ phase' = "idle")
  BY <1>0, <1>a DEF RetryOrRaise, Raise, Tries
<1> USE RetryAssumption DEF IndInv, RetryOrRaise, Raise, Calls, Tries, Requests
<1>1. TypeOK'
  <2>1. tries' \in [Calls -> Tries]
    BY <1>0, <1>b DEF TypeOK
  <2>2. failed' \subseteq Calls
    BY <1>0, <1>b DEF TypeOK
  <2> QED BY <1>0, <1>b, <2>1, <2>2 DEF TypeOK
<1>2. AcknowledgedIsApplied'
  <2>1. Acked' \subseteq Acked
    BY DEF TypeOK, Acked
  <2>2. \A c \in Acked' : tries'[c] = tries[c]
    BY DEF TypeOK, Acked
  <2> QED BY <2>1, <2>2 DEF AcknowledgedIsApplied
<1>3. AppliedWithinTries'
  <2>1. \A c \in Calls : tries[c] <= tries'[c]
    BY <1>0, <1>b DEF TypeOK
  <2>2. \A r \in applied \cup network : r[1] \in Calls /\ r[2] \in Nat
    BY DEF TypeOK
  <2>3. ASSUME NEW r \in applied \cup network PROVE r[2] <= tries'[r[1]]
    <3>1. r[2] <= tries[r[1]] /\ tries[r[1]] <= tries'[r[1]]
      BY <2>1, <2>2 DEF AppliedWithinTries
    <3>2. tries[r[1]] \in Nat /\ tries'[r[1]] \in Nat /\ r[2] \in Nat
      BY <1>1, <2>2 DEF TypeOK
    <3> QED BY <3>1, <3>2
  <2> QED BY <2>3 DEF AppliedWithinTries
<1>4. AnswersAreTrue'
  <2>1. \A c \in failed : c <= issued /\ c # issued
    BY DEF AnswersAreTrue
  <2>2. \A c \in failed' : c <= issued' /\ ~(c = issued' /\ phase' # "idle")
    <3>1. issued' = issued /\ issued <= issued
      BY <1>0
    <3>2. CASE failed' = failed
      BY <2>1, <3>1, <3>2
    <3>3. CASE failed' = failed \cup {issued} /\ phase' = "idle"
      BY <2>1, <3>1, <3>3
    <3> QED BY <3>2, <3>3, <1>b
  <2> QED BY <2>2 DEF AnswersAreTrue
<1> QED BY <1>1, <1>2, <1>3, <1>4

LEMMA SendStep == IndInv /\ Send => IndInv'
<1> SUFFICES ASSUME IndInv, Send PROVE IndInv'
  OBVIOUS
<1> USE RetryAssumption DEF IndInv, Send, Calls, Tries, Requests
<1>1. TypeOK'
  BY DEF TypeOK, Current
<1>2. AcknowledgedIsApplied'
  BY DEF TypeOK, AcknowledgedIsApplied, Acked
<1>3. AppliedWithinTries'
  BY DEF TypeOK, AppliedWithinTries, Current
<1>4. AnswersAreTrue'
  BY DEF TypeOK, AnswersAreTrue
<1> QED BY <1>1, <1>2, <1>3, <1>4

LEMMA ReceiveStep == IndInv /\ Receive => IndInv'
<1> SUFFICES ASSUME IndInv, Receive PROVE IndInv'
  OBVIOUS
<1>1. PICK a \in answers :
        /\ a.request = Current
        /\ \/ a.status = "ok" /\ Return
           \/ a.status = "server_error" /\ RetryOrRaise
           \/ a.status \in {"client_error", "unreadable"} /\ Raise
  BY DEF Receive
<1>2. CASE a.status = "ok" /\ Return
  <2> USE RetryAssumption, <1>1, <1>2 DEF IndInv, Receive, Return, Calls, Tries, Requests
  <2>1. TypeOK'
    BY DEF TypeOK
  <2>2. AcknowledgedIsApplied'
    <3>1. Acked' \subseteq Acked \cup {issued}
      BY DEF TypeOK, Acked
    <3>2. <<issued, tries[issued]>> \in applied
      BY DEF AnswersAreTrue, Current
    <3> QED BY <3>1, <3>2 DEF AcknowledgedIsApplied
  <2>3. AppliedWithinTries' /\ AnswersAreTrue'
    BY DEF TypeOK, AppliedWithinTries, AnswersAreTrue
  <2> QED BY <2>1, <2>2, <2>3
<1>3. CASE RetryOrRaise \/ Raise
  BY <1>3, RetryOrRaiseStep DEF Receive
<1> QED BY <1>1, <1>2, <1>3

LEMMA ServerStep == IndInv /\ Server => IndInv'
<1> SUFFICES ASSUME IndInv, NEW r \in network, NEW answer \in Answers,
                    NEW commits \in BOOLEAN, Serve(r, answer, commits)
             PROVE  IndInv'
  BY DEF Server
<1> USE RetryAssumption DEF IndInv, Serve, Calls, Tries, Requests
<1>1. TypeOK'
  BY DEF TypeOK
<1>2. AcknowledgedIsApplied'
  BY DEF AcknowledgedIsApplied, Acked
<1>3. AppliedWithinTries'
  BY DEF TypeOK, AppliedWithinTries
<1>4. AnswersAreTrue'
  BY DEF TypeOK, AnswersAreTrue
<1> QED BY <1>1, <1>2, <1>3, <1>4

LEMMA NextHolds == IndInv /\ [Next]_vars => IndInv'
<1> SUFFICES ASSUME IndInv, [Next]_vars PROVE IndInv'
  OBVIOUS
<1>1. CASE Call
  BY <1>1, CallStep
<1>2. CASE Send
  BY <1>2, SendStep
<1>3. CASE ConnectFails
  BY <1>3, RetryOrRaiseStep DEF ConnectFails
<1>4. CASE TimedOut
  BY <1>4, RetryOrRaiseStep DEF TimedOut
<1>5. CASE Receive
  BY <1>5, ReceiveStep
<1>6. CASE Server
  BY <1>6, ServerStep
<1>7. CASE UNCHANGED vars
  BY <1>7 DEF vars, IndInv, TypeOK, AcknowledgedIsApplied, AppliedWithinTries,
              AnswersAreTrue, Acked, Requests
<1> QED BY <1>1, <1>2, <1>3, <1>4, <1>5, <1>6, <1>7 DEF Next, Transport

LEMMA Inductive == Spec => []IndInv
BY InitHolds, NextHolds, PTL DEF Spec

\* Every value the transport keeps is of its kind (transport.py, _request).
THEOREM TypeCorrect == Spec => []TypeOK
BY Inductive, PTL DEF IndInv

\* At least once: what returned was committed by the server.
THEOREM AtLeastOnce == Spec => []AcknowledgedIsApplied
BY Inductive, PTL DEF IndInv

\* No more often than tried: no application without a try of its own.
THEOREM NoMoreThanTried == Spec => []AppliedWithinTries
BY Inductive, PTL DEF IndInv

-----------------------------------------------------------------------------
(* The refinement.                                                         *)

LEMMA InitMaps == Init => Log!Init
BY RetryAssumption DEF Init, Log!Init, Acked, Calls

\* A try that failed is a stutter or the report of the current call.
LEMMA FailedTryMaps ==
  ASSUME IndInv, phase # "idle", RetryOrRaise \/ Raise, UNCHANGED <<issued, applied>>
  PROVE  Log!Report \/ UNCHANGED Log!vars
<1> USE RetryAssumption DEF IndInv, TypeOK, AnswersAreTrue, Calls, Acked
<1>1. CASE phase' = "sending" /\ UNCHANGED failed
  <2>1. Acked' = Acked
    BY <1>1
  <2> QED BY <1>1, <2>1 DEF Log!vars
<1>2. CASE Raise
  <2>1. issued \in Log!Pending
    BY DEF Log!Pending, Log!Calls
  <2>2. Acked' = Acked
    BY <1>2 DEF Raise
  <2> QED BY <1>2, <2>1, <2>2 DEF Raise, Log!Report
<1> QED BY <1>1, <1>2 DEF RetryOrRaise

LEMMA NextMaps == IndInv /\ [Next]_vars => [Log!Next]_Log!vars
<1> SUFFICES ASSUME IndInv, [Next]_vars PROVE Log!Next \/ UNCHANGED Log!vars
  OBVIOUS
<1> USE RetryAssumption DEF Calls
<1>1. CASE Call
  <2>1. Log!Pending = {}
    BY <1>1 DEF Call, Log!Pending, Log!Calls, Acked
  <2>2. Acked' = Acked
    BY <1>1 DEF Call, Acked, IndInv, TypeOK, AnswersAreTrue
  <2> QED BY <1>1, <2>1, <2>2 DEF Call, Log!Issue, Log!Next
<1>2. CASE Send
  <2>1. Acked' = Acked
    BY <1>2 DEF Send, Acked
  <2> QED BY <1>2, <2>1 DEF Send, Log!vars
<1>3. CASE ConnectFails \/ TimedOut
  BY <1>3, FailedTryMaps DEF ConnectFails, TimedOut, Log!Next
<1>4. CASE Receive
  <2>1. PICK a \in answers :
          /\ a.request = Current
          /\ \/ a.status = "ok" /\ Return
             \/ RetryOrRaise
             \/ Raise
    BY <1>4 DEF Receive
  <2>2. CASE a.status = "ok" /\ Return
    <3>1. issued \in Log!Pending /\ Acked' = Acked \cup {issued}
      BY <1>4, <2>2 DEF Receive, Return, Log!Pending, Log!Calls, Acked, IndInv, TypeOK,
                         AnswersAreTrue
    <3>2. <<issued, tries[issued]>> \in applied /\ tries[issued] \in Log!Tries
      BY <1>4, <2>1, <2>2 DEF Receive, Current, IndInv, TypeOK, AnswersAreTrue, Tries, Log!Tries
    <3> QED BY <1>4, <2>2, <3>1, <3>2 DEF Receive, Return, Log!Acknowledge, Log!Next
  <2>3. CASE RetryOrRaise \/ Raise
    BY <1>4, <2>3, FailedTryMaps DEF Receive, Log!Next
  <2> QED BY <2>1, <2>2, <2>3
<1>5. CASE Server
  <2>1. PICK r \in network, answer \in Answers, commits \in BOOLEAN : Serve(r, answer, commits)
    BY <1>5 DEF Server
  <2>2. Acked' = Acked
    BY <2>1 DEF Serve, Acked
  <2>3. CASE applied' = applied
    BY <2>1, <2>2, <2>3 DEF Serve, Log!vars
  <2>4. CASE applied' # applied
    <3>1. applied' = applied \cup {r} /\ r \notin applied
      BY <2>1, <2>4 DEF Serve
    <3>2. r \in Calls \X Tries /\ r[1] <= issued
      BY DEF IndInv, TypeOK, Requests, AppliedWithinTries
    <3>3. r = <<r[1], r[2]>> /\ r[1] \in Log!Calls /\ r[2] \in Log!Tries
      BY <3>2 DEF Tries, Log!Calls, Log!Tries
    <3> QED BY <2>1, <2>2, <3>1, <3>2, <3>3 DEF Serve, Log!Apply, Log!Next
  <2> QED BY <2>3, <2>4
<1>6. CASE UNCHANGED vars
  BY <1>6 DEF vars, Log!vars, Acked
<1> QED BY <1>1, <1>2, <1>3, <1>4, <1>5, <1>6 DEF Next, Transport

\* Retries, timeouts and lost answers are invisible at the level of DeliveryLog:
\* every step of the transport is one of its steps or changes nothing there.
THEOREM Refines == Spec => ImplementsDeliveryLog
<1>1. Init => Log!Init
  BY InitMaps
<1>2. IndInv /\ [Next]_vars => [Log!Next]_Log!vars
  BY NextMaps
<1> QED BY <1>1, <1>2, Inductive, PTL DEF Spec, Log!Spec, ImplementsDeliveryLog

-----------------------------------------------------------------------------
(* The calls of a replay.                                                  *)

\* A call that is made on a condition comes at the end, and displaces none.
LEMMA WhenAdds ==
    ASSUME NEW s \in Seq(Posts), NEW cond,
           NEW kind \in {"retrieval", "context", "answer", "citations"}
    PROVE  /\ ~cond => s \o When(cond, kind) = s
           /\ cond => /\ s \o When(cond, kind) \in Seq(Posts)
                      /\ Len(s \o When(cond, kind)) = Len(s) + 1
                      /\ \A k \in 1..Len(s) : (s \o When(cond, kind))[k] = s[k]
                      /\ (s \o When(cond, kind))[Len(s) + 1] = Post(kind)
<1>1. CASE cond
  <2>1. When(cond, kind) = <<Post(kind)>> /\ Post(kind) \in Posts
    BY <1>1 DEF When, Post, Posts
  <2> QED
    <3>1. /\ s \o <<Post(kind)>> \in Seq(Posts)
          /\ Len(s \o <<Post(kind)>>) = Len(s) + 1
          /\ \A k \in 1..Len(s) : (s \o <<Post(kind)>>)[k] = s[k]
          /\ (s \o <<Post(kind)>>)[Len(s) + 1] = Post(kind)
      BY <2>1
    <3> QED
      BY <1>1, <2>1, <3>1, Zenon
<1>2. CASE ~cond
  <2>1. s \o When(cond, kind) = s \o <<>>
    BY <1>2, Zenon DEF When
  <2>2. s \o <<>> = s
    BY ConcatEmptySeq
  <2> QED
    BY <1>2, <2>1, <2>2, Zenon
<1> QED
  BY <1>1, <1>2

\* The calls before the events: the start first, then what the trace has.
LEMMA PostsBeforeEventsShape ==
    ASSUME NEW t \in LocalTrace
    PROVE  LET s == PostsBeforeEvents(t) IN
           /\ s \in Seq(Posts) /\ Len(s) >= 1 /\ s[1] = Post("start")
           /\ \A k \in 2..Len(s) : /\ s[k].kind \in {"retrieval", "context", "answer", "citations"}
                                   /\ s[k].kind = "answer" => t.answer
           /\ t.chunks # {} => \E k \in 2..Len(s) : s[k].kind = "retrieval"
           /\ t.selected # {} => \E k \in 2..Len(s) : s[k].kind = "context"
           /\ t.answer => \E k \in 2..Len(s) : s[k].kind = "answer"
           /\ t.checks # {} => \E k \in 2..Len(s) : s[k].kind = "citations"
<1> DEFINE c2 == t.chunks # {}  c3 == t.selected # {}  c4 == t.answer  c5 == t.checks # {}
           s1 == <<Post("start")>>
           s2 == s1 \o When(c2, "retrieval")
           s3 == s2 \o When(c3, "context")
           s4 == s3 \o When(c4, "answer")
           s5 == s4 \o When(c5, "citations")
           Shape(s) == /\ s \in Seq(Posts) /\ Len(s) \in Nat /\ Len(s) >= 1 /\ s[1] = Post("start")
                       /\ \A k \in 2..Len(s) :
                            /\ s[k].kind \in {"retrieval", "context", "answer", "citations"}
                            /\ s[k].kind = "answer" => c4
           Has(s, kind) == \E k \in 2..Len(s) : s[k].kind = kind
<1>1. Shape(s1)
  <2>1. Post("start") \in Posts
    BY DEF Post, Posts
  <2> QED
    BY <2>1
<1>2. ASSUME NEW s, Shape(s), NEW cond, NEW kind \in {"retrieval", "context", "answer", "citations"},
             kind = "answer" /\ cond => c4
      PROVE  LET after == s \o When(cond, kind) IN
             /\ Shape(after)
             /\ cond => Has(after, kind)
             /\ \A other : Has(s, other) => Has(after, other)
  <2> DEFINE after == s \o When(cond, kind)
  <2>1. CASE ~cond
    <3>1. after = s
      BY <1>2, <2>1, WhenAdds
    <3> QED
      BY <1>2, <2>1, <3>1
  <2>2. CASE cond
    <3>1. /\ after \in Seq(Posts) /\ Len(after) = Len(s) + 1
          /\ \A k \in 1..Len(s) : after[k] = s[k]
          /\ after[Len(s) + 1] = Post(kind) /\ Post(kind).kind = kind
      <4>1. s \in Seq(Posts)
        BY <1>2
      <4>2. Post(kind).kind = kind
        BY DEF Post
      <4>3. /\ after \in Seq(Posts) /\ Len(after) = Len(s) + 1
            /\ \A k \in 1..Len(s) : after[k] = s[k]
            /\ after[Len(s) + 1] = Post(kind)
        BY <2>2, <4>1, WhenAdds, Zenon
      <4> QED
        BY <4>2, <4>3, Zenon
    <3> HIDE DEF after
    <3>2. Len(s) + 1 \in 2..Len(after) /\ 1 \in 1..Len(s) /\ Len(after) \in Nat /\ Len(after) >= 1
      BY <1>2, <3>1
    <3>3. \A k \in 2..Len(after) : k = Len(s) + 1 \/ (k \in 2..Len(s) /\ k \in 1..Len(s))
      BY <1>2, <3>1
    <3>4. \A k \in 2..Len(s) : k \in 2..Len(after) /\ after[k] = s[k]
      BY <1>2, <3>1
    <3>5. Shape(after)
      BY <1>2, <2>2, <3>1, <3>2, <3>3
    <3>6. Has(after, kind) /\ \A other : Has(s, other) => Has(after, other)
      BY <3>1, <3>2, <3>4
    <3> QED
      BY <3>5, <3>6 DEF after
  <2> QED
    BY <2>1, <2>2
<1>3. PostsBeforeEvents(t) = s5
  BY DEF PostsBeforeEvents
<1> HIDE DEF c2, c3, c4, c5, Shape, Has, s1
<1>4. Shape(s2) /\ (c2 => Has(s2, "retrieval"))
  BY <1>1, <1>2
<1> HIDE DEF s2
<1>5. Shape(s3) /\ (c3 => Has(s3, "context")) /\ \A other : Has(s2, other) => Has(s3, other)
  BY <1>2, <1>4
<1> HIDE DEF s3
<1>6. Shape(s4) /\ (c4 => Has(s4, "answer")) /\ \A other : Has(s3, other) => Has(s4, other)
  BY <1>2, <1>5
<1> HIDE DEF s4
<1>7. Shape(s5) /\ (c5 => Has(s5, "citations")) /\ \A other : Has(s4, other) => Has(s5, other)
  BY <1>2, <1>6
<1> HIDE DEF s5
<1>8. /\ c2 => Has(s5, "retrieval")
      /\ c3 => Has(s5, "context")
      /\ c4 => Has(s5, "answer")
      /\ c5 => Has(s5, "citations")
  BY <1>4, <1>5, <1>6, <1>7
<1> QED
  BY <1>3, <1>7, <1>8 DEF Shape, Has, c2, c3, c4, c5

\* The calls of a replay: a start, every part of the trace that is not empty, and
\* the events one after the other.
LEMMA StepsShape ==
    ASSUME NEW t \in LocalTrace
    PROVE  LET s == Steps(t) IN
           /\ s \in Seq(Posts) /\ Len(s) >= 1 /\ s[1] = Post("start")
           /\ \A k \in 2..Len(s) :
                /\ s[k].kind # "start"
                /\ s[k].kind = "answer" => t.answer
                /\ s[k].kind = "event" =>
                     \E j \in DOMAIN t.events :
                        /\ s[k].event = t.events[j]
                        /\ \A i \in 1..(j - 1) : \E h \in 2..(k - 1) : s[h] = EventPost(t.events[i])
           /\ t.chunks # {} => \E k \in 2..Len(s) : s[k].kind = "retrieval"
           /\ t.selected # {} => \E k \in 2..Len(s) : s[k].kind = "context"
           /\ t.answer => \E k \in 2..Len(s) : s[k].kind = "answer"
           /\ t.checks # {} => \E k \in 2..Len(s) : s[k].kind = "citations"
           /\ \A i \in DOMAIN t.events : \E k \in 2..Len(s) : s[k] = EventPost(t.events[i])
<1> DEFINE b == PostsBeforeEvents(t)  n == Len(b)
           e == [i \in DOMAIN t.events |-> EventPost(t.events[i])]  s == Steps(t)
<1>1. /\ b \in Seq(Posts) /\ n \in Nat /\ n >= 1 /\ b[1] = Post("start")
      /\ \A k \in 2..n : /\ b[k].kind \in {"retrieval", "context", "answer", "citations"}
                         /\ b[k].kind = "answer" => t.answer
      /\ t.chunks # {} => \E k \in 2..n : b[k].kind = "retrieval"
      /\ t.selected # {} => \E k \in 2..n : b[k].kind = "context"
      /\ t.answer => \E k \in 2..n : b[k].kind = "answer"
      /\ t.checks # {} => \E k \in 2..n : b[k].kind = "citations"
  BY PostsBeforeEventsShape
<1>2. t.events \in Seq(Events)
  BY DEF LocalTrace
<1>3. \A x \in Events : EventPost(x) \in Posts /\ EventPost(x).kind = "event" /\ EventPost(x).event = x
  BY DEF EventPost, Posts
<1>4. /\ e \in Seq(Posts) /\ Len(e) = Len(t.events) /\ DOMAIN t.events = 1..Len(t.events)
      /\ \A i \in DOMAIN t.events : e[i] = EventPost(t.events[i]) /\ t.events[i] \in Events
  BY <1>2, <1>3
<1>5. s = b \o e
  BY DEF Steps
<1> HIDE DEF b, e, s
<1>6. /\ s \in Seq(Posts) /\ Len(s) = n + Len(e) /\ Len(e) \in Nat
      /\ \A k \in 1..n : s[k] = b[k]
      /\ \A i \in 1..Len(e) : s[n + i] = e[i]
  <2>1. b \in Seq(Posts) /\ e \in Seq(Posts)
    BY <1>1, <1>4
  <2>2. b \o e \in Seq(Posts) /\ Len(b \o e) = Len(b) + Len(e) /\ Len(e) \in Nat /\ Len(b) \in Nat
    BY <2>1, ConcatProperties
  <2>3. \A k \in 1..(Len(b) + Len(e)) : (b \o e)[k] = IF k <= Len(b) THEN b[k] ELSE e[k - Len(b)]
    BY <2>1, ConcatProperties
  <2>4. ASSUME NEW i \in 1..Len(e) PROVE s[n + i] = e[i]
    <3>1. n + i \in 1..(Len(b) + Len(e)) /\ ~(n + i <= Len(b)) /\ n + i - Len(b) = i
      BY <2>2 DEF n
    <3> QED
      BY <1>5, <2>3, <3>1
  <2>5. \A k \in 1..n : s[k] = b[k]
    BY <1>5, <2>2, <2>3 DEF n
  <2> QED
    BY <1>5, <2>2, <2>4, <2>5 DEF n
<1> HIDE DEF n
<1>7. ASSUME NEW i \in DOMAIN t.events
      PROVE  n + i \in 2..Len(s) /\ s[n + i] = EventPost(t.events[i])
  BY <1>1, <1>4, <1>6
<1>8. ASSUME NEW k \in 2..Len(s), k > n
      PROVE  /\ s[k].kind = "event"
             /\ \E j \in DOMAIN t.events :
                   /\ s[k].event = t.events[j]
                   /\ \A i \in 1..(j - 1) : \E h \in 2..(k - 1) : s[h] = EventPost(t.events[i])
  <2> DEFINE j == k - n
  <2>1. j \in DOMAIN t.events /\ k = n + j
    BY <1>1, <1>4, <1>6, <1>8
  <2>2. s[k] = EventPost(t.events[j]) /\ t.events[j] \in Events
    BY <1>4, <1>7, <2>1
  <2>3. ASSUME NEW i \in 1..(j - 1) PROVE \E h \in 2..(k - 1) : s[h] = EventPost(t.events[i])
    <3>1. i \in DOMAIN t.events /\ n + i \in 2..(k - 1)
      BY <1>1, <1>4, <2>1, <2>3
    <3> QED
      BY <1>7, <3>1
  <2> QED
    BY <1>3, <2>1, <2>2, <2>3
<1>9. ASSUME NEW k \in 2..Len(s), k <= n
      PROVE  /\ s[k].kind \in {"retrieval", "context", "answer", "citations"}
             /\ s[k].kind = "answer" => t.answer
  BY <1>1, <1>6, <1>9
<1>10. 2..n \subseteq 2..Len(s) /\ \A k \in 2..n : s[k] = b[k]
  BY <1>1, <1>6
<1>11. /\ s \in Seq(Posts) /\ Len(s) >= 1 /\ s[1] = Post("start")
       /\ \A k \in 2..Len(s) : k <= n \/ k > n
  BY <1>1, <1>6
<1>12. /\ t.chunks # {} => \E k \in 2..Len(s) : s[k].kind = "retrieval"
       /\ t.selected # {} => \E k \in 2..Len(s) : s[k].kind = "context"
       /\ t.answer => \E k \in 2..Len(s) : s[k].kind = "answer"
       /\ t.checks # {} => \E k \in 2..Len(s) : s[k].kind = "citations"
  BY <1>1, <1>10
<1>13. \A i \in DOMAIN t.events : \E k \in 2..Len(s) : s[k] = EventPost(t.events[i])
  BY <1>7
<1>14. ASSUME NEW k \in 2..Len(s)
       PROVE  /\ s[k].kind # "start"
              /\ s[k].kind = "answer" => t.answer
              /\ s[k].kind = "event" =>
                   \E j \in DOMAIN t.events :
                      /\ s[k].event = t.events[j]
                      /\ \A i \in 1..(j - 1) : \E h \in 2..(k - 1) : s[h] = EventPost(t.events[i])
  <2>1. CASE k <= n
    BY <1>9, <2>1
  <2>2. CASE k > n
    BY <1>8, <2>2
  <2> QED
    BY <1>11, <2>1, <2>2
<1> QED
  BY <1>11, <1>12, <1>13, <1>14 DEF s

\* A call of kind "start" is the start, and no other call of a replay is.
LEMMA StartPost ==
    /\ Post("start") \in Posts /\ Post("start").kind = "start"
    /\ \A p \in Posts : p.kind = "start" => p = Post("start")
BY DEF Posts, Post

-----------------------------------------------------------------------------
(* What a call does to a copy.                                             *)

\* An event is written behind the events that come before it.
LEMMA AppendInOrder ==
    ASSUME NEW s \in Seq(Events), NEW events \in Seq(Events), InOrder(s, events),
           NEW j \in DOMAIN events,
           \A i \in 1..(j - 1) : \E p \in DOMAIN s : s[p] = events[i]
    PROVE  InOrder(Append(s, events[j]), events)
<1> DEFINE after == Append(s, events[j])
<1>1. /\ Len(s) \in Nat /\ DOMAIN s = 1..Len(s) /\ DOMAIN after = 1..(Len(s) + 1)
      /\ \A p \in 1..Len(s) : after[p] = s[p]
      /\ after[Len(s) + 1] = events[j]
  OBVIOUS
<1> HIDE DEF after
<1>2. ASSUME NEW p \in DOMAIN after
      PROVE  \E h \in DOMAIN events :
                after[p] = events[h] /\ \A i \in 1..(h - 1) : \E q \in 1..(p - 1) : after[q] = events[i]
  <2>1. CASE p = Len(s) + 1
    <3>1. \A i \in 1..(j - 1) : \E q \in 1..(p - 1) : after[q] = events[i]
      BY <1>1, <2>1
    <3> QED
      BY <1>1, <2>1, <3>1
  <2>2. CASE p \in 1..Len(s)
    <3>1. PICK h \in DOMAIN events :
            s[p] = events[h] /\ \A i \in 1..(h - 1) : \E q \in 1..(p - 1) : s[q] = events[i]
      BY <1>1, <2>2 DEF InOrder
    <3>2. \A q \in 1..(p - 1) : after[q] = s[q]
      BY <1>1, <2>2
    <3> QED
      BY <1>1, <2>2, <3>1, <3>2
  <2> QED
    BY <1>1, <2>1, <2>2
<1> QED
  BY <1>2 DEF InOrder, after

\* A call leaves a copy one of its trace, shows in it, and undoes no other.
LEMMA AppliedKeeps ==
    ASSUME NEW row \in HostedTrace, NEW t \in LocalTrace, t.selected \subseteq t.chunks,
           NothingElse(row, t),
           NEW k \in 2..Len(Steps(t)), NEW post, post = Steps(t)[k],
           \A h \in 2..(k - 1) : Shows(row, t, Steps(t)[h])
    PROVE  LET after == AppliedTo(row, t, post) IN
           /\ after \in HostedTrace /\ after.of = row.of
           /\ NothingElse(after, t)
           /\ Shows(after, t, post)
           /\ \A p \in Posts : Shows(row, t, p) => Shows(after, t, p)
<1> DEFINE after == AppliedTo(row, t, post)
<1>1. /\ post \in Posts /\ post.kind # "start"
      /\ post.kind = "answer" => t.answer
      /\ post.kind = "event" =>
           \E j \in DOMAIN t.events :
              /\ post.event = t.events[j]
              /\ \A i \in 1..(j - 1) : \E h \in 2..(k - 1) : Steps(t)[h] = EventPost(t.events[i])
  <2>1. Steps(t) \in Seq(Posts) /\ k \in 1..Len(Steps(t))
    BY StepsShape
  <2>2. post \in Posts
    BY <2>1
  <2> QED
    BY <2>2, StepsShape
<1>2. /\ row.of \in Nat /\ row.chunks \subseteq Chunks /\ row.selected \subseteq Chunks
      /\ row.answer \in BOOLEAN /\ row.checks \subseteq Checks /\ row.events \in Seq(Events)
      /\ t.chunks \subseteq Chunks /\ t.selected \subseteq Chunks /\ t.answer \in BOOLEAN
      /\ t.checks \subseteq Checks /\ t.events \in Seq(Events)
  BY DEF HostedTrace, LocalTrace
<1>3. CASE post.kind = "retrieval"
  <2>1. after = [row EXCEPT !.chunks = @ \cup t.chunks]
    BY <1>3 DEF AppliedTo
  <2>2. /\ after.of = row.of /\ after.chunks = row.chunks \cup t.chunks
        /\ after.selected = row.selected /\ after.answer = row.answer
        /\ after.checks = row.checks /\ after.events = row.events /\ after \in HostedTrace
    BY <1>2, <2>1 DEF HostedTrace
  <2> HIDE DEF after
  <2> QED
    BY <1>2, <1>3, <2>2 DEF NothingElse, Shows, after
<1>4. CASE post.kind = "context"
  <2>1. after = [row EXCEPT !.chunks = @ \cup t.selected, !.selected = @ \cup t.selected]
    BY <1>4 DEF AppliedTo
  <2>2. /\ after.of = row.of /\ after.chunks = row.chunks \cup t.selected
        /\ after.selected = row.selected \cup t.selected /\ after.answer = row.answer
        /\ after.checks = row.checks /\ after.events = row.events /\ after \in HostedTrace
    BY <1>2, <2>1 DEF HostedTrace
  <2> HIDE DEF after
  <2> QED
    BY <1>2, <1>4, <2>2 DEF NothingElse, Shows, after
<1>5. CASE post.kind = "answer"
  <2>1. after = [row EXCEPT !.answer = TRUE]
    BY <1>5 DEF AppliedTo
  <2>2. /\ after.of = row.of /\ after.chunks = row.chunks
        /\ after.selected = row.selected /\ after.answer = TRUE
        /\ after.checks = row.checks /\ after.events = row.events /\ after \in HostedTrace
    BY <1>2, <2>1 DEF HostedTrace
  <2> HIDE DEF after
  <2> QED
    BY <1>1, <1>2, <1>5, <2>2 DEF NothingElse, Shows, after
<1>6. CASE post.kind = "citations"
  <2>1. after = [row EXCEPT !.checks = t.checks]
    BY <1>6 DEF AppliedTo
  <2>2. /\ after.of = row.of /\ after.chunks = row.chunks
        /\ after.selected = row.selected /\ after.answer = row.answer
        /\ after.checks = t.checks /\ after.events = row.events /\ after \in HostedTrace
    BY <1>2, <2>1 DEF HostedTrace
  <2> HIDE DEF after
  <2> QED
    BY <1>2, <1>6, <2>2 DEF NothingElse, Shows, after
<1>7. CASE post.kind = "event"
  <2>1. after = [row EXCEPT !.events = Append(@, post.event)]
    BY <1>7 DEF AppliedTo
  <2>2. PICK j \in DOMAIN t.events :
              /\ post.event = t.events[j]
              /\ \A i \in 1..(j - 1) : \E h \in 2..(k - 1) : Steps(t)[h] = EventPost(t.events[i])
    BY <1>1, <1>7
  <2>3. post.event \in Events /\ Append(row.events, post.event) \in Seq(Events)
    BY <1>2, <2>2
  <2>4. /\ after.of = row.of /\ after.chunks = row.chunks
        /\ after.selected = row.selected /\ after.answer = row.answer
        /\ after.checks = row.checks /\ after.events = Append(row.events, post.event)
        /\ after \in HostedTrace
    BY <1>2, <2>1, <2>3 DEF HostedTrace
  <2> HIDE DEF after
  <2>5. ASSUME NEW i \in 1..(j - 1) PROVE \E p \in DOMAIN row.events : row.events[p] = t.events[i]
    <3>1. PICK h \in 2..(k - 1) : Steps(t)[h] = EventPost(t.events[i])
      BY <2>2
    <3>2. Shows(row, t, EventPost(t.events[i]))
      BY <3>1
    <3> QED
      BY <3>2 DEF Shows, EventPost
  <2>6. InOrder(row.events, t.events)
    BY DEF NothingElse
  <2>7. InOrder(after.events, t.events)
    BY <1>2, <2>2, <2>4, <2>5, <2>6, AppendInOrder
  <2>8. /\ DOMAIN row.events \subseteq DOMAIN after.events
        /\ \A p \in DOMAIN row.events : after.events[p] = row.events[p]
        /\ \E p \in DOMAIN after.events : after.events[p] = post.event
    <3> DEFINE old == row.events  x == post.event
    <3>1. old \in Seq(Events)
      BY <1>2
    <3> HIDE DEF old, x
    <3>2. /\ DOMAIN old = 1..Len(old) /\ DOMAIN Append(old, x) = 1..(Len(old) + 1) /\ Len(old) \in Nat
          /\ \A p \in 1..Len(old) : Append(old, x)[p] = old[p]
          /\ Append(old, x)[Len(old) + 1] = x
      BY <3>1
    <3> QED
      BY <2>4, <3>2 DEF old, x
  <2>9. NothingElse(after, t)
    BY <2>4, <2>7 DEF NothingElse
  <2>10. Shows(after, t, post)
    BY <1>7, <2>8 DEF Shows
  <2>11. ASSUME NEW p \in Posts, Shows(row, t, p) PROVE Shows(after, t, p)
    BY <2>4, <2>8, <2>11 DEF Shows
  <2> QED
    BY <2>4, <2>9, <2>10, <2>11 DEF after
<1> HIDE DEF after
<1>8. post.kind \in {"start", "retrieval", "context", "answer", "citations", "event"}
  BY <1>1 DEF Posts
<1> QED
  BY <1>1, <1>3, <1>4, <1>5, <1>6, <1>7, <1>8 DEF after

-----------------------------------------------------------------------------
(* The steps of an upload.                                                 *)

\* What the transport's invariant says of requests.
LEMMA Wire ==
    ASSUME IndInv
    PROVE  /\ issued \in Nat /\ issued <= MaxCalls /\ network \cup applied \subseteq Requests
           /\ \A r \in network \cup applied : r \in Requests /\ r[1] \in 1..issued /\ r[1] \in Calls
<1>1. issued \in 0..MaxCalls /\ network \cup applied \subseteq Requests
  BY DEF IndInv, TypeOK
<1>2. ASSUME NEW r \in network \cup applied PROVE r \in Requests /\ r[1] \in 1..issued /\ r[1] \in Calls
  <2>1. r \in Requests /\ r[1] \in 1..MaxCalls
    BY <1>1 DEF Requests, Calls
  <2>2. r[1] <= issued
    BY DEF IndInv, AppliedWithinTries
  <2> QED
    BY <1>1, <2>1, <2>2, RetryAssumption DEF Calls
<1> QED
  BY <1>1, <1>2, RetryAssumption

\* Every step of an upload is one of the transport, or none.
LEMMA TransportMoves == [UploadNext]_allvars => [Next]_vars
BY DEF UploadNext, allvars, Client, NextCall, TraceUploaded, UploadReturns, UploadRaises, UploadAgain,
       TransportStep, ServeUpload, Next, Server

\* A call that returned was applied, in the try it ended with.
LEMMA ReturnedIsApplied ==
    ASSUME IndInv, issued > 0, phase = "idle", issued \notin failed
    PROVE  Current \in applied /\ Current[1] = issued
BY Wire DEF IndInv, AcknowledgedIsApplied, Acked, Current, Calls

\* A try is sent when it is new.
LEMMA SentOnceStep ==
    ASSUME IndInv, IndInv', SentOnce, [Next]_vars
    PROVE  SentOnce'
<1>1. /\ issued \in Nat /\ \A r \in network \cup applied : r[1] \in 1..issued
  BY Wire
<1>2. tries \in [Calls -> Tries] /\ (phase # "idle" => issued \in Calls)
      /\ \A r \in network \cup applied : r[2] <= tries[r[1]]
  BY DEF IndInv, TypeOK, AppliedWithinTries
<1>3. ASSUME phase # "idle", RetryOrRaise \/ Raise, UNCHANGED <<issued, network, applied>>
      PROVE  SentOnce'
  <2>1. CASE phase' = "sending"
    <3>1. tries'[issued] = tries[issued] + 1 /\ tries[issued] \in Nat
      BY <1>2, <1>3, <2>1, RetryAssumption DEF RetryOrRaise, Raise, Tries
    <3>2. \A r \in network \cup applied : r[1] = issued => r[2] <= tries[issued]
      BY <1>2
    <3>3. Current' \notin network \cup applied
      <4> SUFFICES ASSUME Current' \in network \cup applied PROVE FALSE
        OBVIOUS
      <4>1. Current'[1] = issued /\ Current'[2] = tries[issued] + 1
        BY <1>3, <3>1 DEF Current
      <4> QED
        BY <3>1, <3>2, <4>1
    <3> QED
      BY <1>3, <3>3 DEF SentOnce
  <2> QED
    BY <1>3, <2>1 DEF SentOnce
<1>4. CASE Call
  <2>1. Current'[1] = issued + 1
    BY <1>4 DEF Call, Current
  <2>2. Current' \notin network \cup applied
    BY <1>1, <2>1
  <2> QED
    BY <1>4, <2>2 DEF Call, SentOnce
<1>5. CASE Send
  BY <1>5 DEF Send, SentOnce, Current
<1>6. CASE ConnectFails \/ TimedOut
  BY <1>3, <1>6 DEF ConnectFails, TimedOut
<1>7. CASE Receive
  <2>1. CASE Return
    BY <1>7, <2>1 DEF Receive, Return, SentOnce
  <2> QED
    BY <1>3, <1>7, <2>1 DEF Receive
<1>8. CASE Server
  <2>1. PICK r \in network, answer \in Answers, commits \in BOOLEAN : Serve(r, answer, commits)
    BY <1>8 DEF Server
  <2> QED
    BY <2>1 DEF Serve, SentOnce, Current
<1>9. CASE UNCHANGED vars
  BY <1>9 DEF vars, SentOnce, Current
<1> QED
  BY <1>4, <1>5, <1>6, <1>7, <1>8, <1>9 DEF Next, Transport

\* The local traces are of their type.
LEMMA TracesType ==
    ASSUME UploadTypes, NEW i \in DOMAIN traces
    PROVE  /\ traces[i] \in LocalTrace /\ traces[i].selected \subseteq traces[i].chunks
           /\ Steps(traces[i]) \in Seq(Posts) /\ Len(Steps(traces[i])) \in Nat
           /\ Len(Steps(traces[i])) >= 1 /\ DOMAIN Steps(traces[i]) = 1..Len(Steps(traces[i]))
           /\ Steps(traces[i])[1] = Post("start")
           /\ \A k \in DOMAIN Steps(traces[i]) :
                /\ Steps(traces[i])[k] \in Posts
                /\ k # 1 => Steps(traces[i])[k] # Post("start")
<1>1. traces \in Seq(LocalTrace) /\ traces[i].selected \subseteq traces[i].chunks
  BY TraceListsAssumption DEF UploadTypes
<1>2. traces[i] \in LocalTrace
  BY <1>1
<1> DEFINE s == Steps(traces[i])
<1>3. s \in Seq(Posts) /\ Len(s) >= 1 /\ s[1] = Post("start") /\ \A k \in 2..Len(s) : s[k].kind # "start"
  BY <1>2, StepsShape
<1> HIDE DEF s
<1>4. Len(s) \in Nat /\ DOMAIN s = 1..Len(s)
  BY <1>3
<1>5. \A k \in DOMAIN s : s[k] \in Posts /\ (k # 1 => s[k] # Post("start"))
  BY <1>3, <1>4, StartPost
<1> QED
  BY <1>1, <1>2, <1>3, <1>4, <1>5 DEF s

\* What was filled stays filled.
LEMMA FilledStays ==
    ASSUME traces' = traces, applied \subseteq applied', \A r \in applied : ops'[r[1]] = ops[r[1]]
    PROVE  \A i, id, n : Filled(i, id, n) => Filled(i, id, n)'
BY DEF Filled, IsCopy, Done

\* The calls of finished replays stay in turn.
LEMMA InTurnStays ==
    ASSUME traces' = traces, applied \subseteq applied', \A r \in applied : ops'[r[1]] = ops[r[1]],
           NEW c, InTurn(c), ops'[c] = ops[c]
    PROVE  InTurn(c)'
<1>1. \A i, id, n : Filled(i, id, n) => Filled(i, id, n)'
  BY FilledStays
<1> QED
  BY <1>1 DEF InTurn, Ops, Requests, Calls, Tries

\* When nothing is applied, nothing that was applied changes.
LEMMA NothingApplied ==
    ASSUME IndInv, UploadInv, UNCHANGED <<traces, applied, remote>>,
           \A c \in 1..issued : ops'[c] = ops[c]
    PROVE  RemoteInv' /\ EffectsStay' /\ \A c \in 1..issued : InTurn(c)'
<1>1. \A r \in applied : ops'[r[1]] = ops[r[1]]
  BY Wire
<1>2. \A c \in 1..issued : InTurn(c)'
  BY <1>1, InTurnStays DEF UploadInv
<1>3. RemoteInv'
  BY <1>1 DEF UploadInv, RemoteInv, RemoteIds
<1>4. EffectsStay'
  BY <1>1 DEF UploadInv, EffectsStay
<1> QED
  BY <1>2, <1>3, <1>4

\* A replay whose last call has returned is filled so far.
LEMMA FilledSoFar ==
    ASSUME IndInv, UploadInv, run = "running", at <= Len(traces), phase = "idle", step > 0, ~LastRaised
    PROVE  Filled(at, TargetOf, step) /\ TargetOf \in Requests /\ at \in DOMAIN traces
<1>1. /\ UploadTypes /\ ReplayInv /\ at \in DOMAIN traces /\ step \in Nat
  BY TraceListsAssumption DEF UploadInv, UploadTypes, ReplayInv
<1>2. /\ issued > 0
      /\ ops[issued] = [trace |-> at, target |-> target, post |-> Steps(traces[at])[step]]
      /\ step > 1 => Filled(at, target, step - 1)
  BY <1>1 DEF ReplayInv
<1>3. Current \in applied /\ Current[1] = issued
  BY <1>2, ReturnedIsApplied DEF LastRaised
<1>4. CASE step = 1
  <2>1. IsCopy(Current, at)
    BY <1>1, <1>2, <1>3, <1>4, TracesType DEF IsCopy
  <2> QED
    BY <1>1, <1>3, <1>4, <2>1, Wire DEF Filled, TargetOf
<1>5. CASE step # 1
  <2>1. Filled(at, target, step - 1) /\ step > 1
    BY <1>1, <1>2, <1>5
  <2>2. Done(at, target, step)
    BY <1>2, <1>3 DEF Done
  <2>3. \A k \in 2..step : k \in 2..(step - 1) \/ k = step
    BY <1>1
  <2> QED
    BY <1>1, <1>5, <2>1, <2>2, <2>3, Wire DEF Filled, TargetOf, IsCopy
<1> QED
  BY <1>4, <1>5

\* The copies that are being filled are finitely many.
LEMMA FillingFinite ==
    ASSUME issued \in Nat, NEW i
    PROVE  IsFiniteSet(Filling(i))
<1> DEFINE C == {c \in 1..issued : ops[c].trace = i /\ ops[c].post # Post("start")}
           f == [c \in C |-> ops[c].target]
<1>1. IsFiniteSet(C)
  <2>1. IsFiniteSet(1..issued)
    BY FS_Interval
  <2>2. C \subseteq 1..issued
    OBVIOUS
  <2> HIDE DEF C
  <2> QED
    BY <2>1, <2>2, FS_Subset
<1>2. Filling(i) = {ops[c].target : c \in C}
  BY DEF Filling
<1>3. f \in Surjection(C, Filling(i))
  BY <1>2 DEF Surjection
<1> HIDE DEF C, f
<1> QED
  BY <1>1, <1>3, FS_Surjection

\* The next call of a replay.
LEMMA NextCallStep ==
    ASSUME IndInv, IndInv', UploadInv, SentOnce', NextCall
    PROVE  UploadInv'
<1> DEFINE new == [trace |-> at, target |-> TargetOf, post |-> Steps(traces[at])[step + 1]]
<1>0. PICK c : c = issued + 1
  OBVIOUS
<1>1. /\ UploadTypes /\ ReplayInv /\ run = "running" /\ at \in DOMAIN traces /\ step \in Nat
      /\ step < Len(Steps(traces[at])) /\ ~LastRaised /\ phase = "idle"
  BY TraceListsAssumption DEF UploadInv, UploadTypes, ReplayInv, NextCall, Call
<1>2. /\ UNCHANGED <<traces, run, runs, at, remote, uploaded, tries, network, answers, applied, failed>>
      /\ phase' = "sending" /\ issued' = c /\ step' = step + 1 /\ target' = TargetOf
      /\ ops' = [ops EXCEPT ![c] = new] /\ issued < MaxCalls /\ issued \in Nat
  BY <1>0, Wire DEF NextCall, Call
<1>3. c \in Calls /\ c \notin 1..issued /\ 1..c = 1..issued \cup {c}
  BY <1>0, <1>2, RetryAssumption DEF Calls
<1>4. /\ \A d \in 1..issued : ops'[d] = ops[d]
      /\ ops'[c] = new
  BY <1>1, <1>2, <1>3 DEF UploadTypes
<1>5. /\ step + 1 \in DOMAIN Steps(traces[at]) /\ Steps(traces[at])[step + 1] \in Posts
      /\ Steps(traces[at])[1] = Post("start")
      /\ step > 0 => /\ Steps(traces[at])[step + 1] # Post("start")
                     /\ step # 1 => Steps(traces[at])[step] # Post("start")
  BY <1>1, TracesType
<1>6. step > 0 => Filled(at, TargetOf, step) /\ TargetOf \in Requests
  BY <1>1, FilledSoFar, TracesType, TraceListsAssumption DEF UploadTypes, ReplayInv
<1>7. TargetOf \in Requests \cup {None}
  BY <1>1, <1>6 DEF TargetOf, UploadTypes
<1>8. new \in Ops /\ at \in Nat
  BY <1>1, <1>5, <1>7 DEF Ops, UploadTypes
<1>9. UploadTypes'
  <2>1. ops' \in [Calls -> Ops \cup {None}]
    BY <1>1, <1>2, <1>8 DEF UploadTypes
  <2> HIDE DEF new
  <2>2. step' \in Nat /\ target' \in Requests \cup {None}
    BY <1>1, <1>2, <1>7
  <2> QED
    BY <1>1, <1>2, <2>1, <2>2 DEF UploadTypes, Requests, Calls, Tries
<1>10. RemoteInv' /\ EffectsStay' /\ \A d \in 1..issued : InTurn(d)'
  BY <1>2, <1>4, NothingApplied
<1>11. \A i, id, n : Filled(i, id, n) => Filled(i, id, n)'
  <2>1. \A r \in applied : ops'[r[1]] = ops[r[1]]
    BY <1>4, Wire
  <2> QED
    BY <1>2, <2>1, FilledStays
<1>12. InTurn(c)'
  <2>1. ops'[c].trace = at /\ ops'[c].target = TargetOf /\ ops'[c].post = Steps(traces[at])[step + 1]
    BY <1>4
  <2>2. step > 0 => \E i, id, n : i = at /\ id = TargetOf /\ n = step /\ Filled(i, id, n)'
    BY <1>6, <1>11
  <2>3. ops'[c] \in Ops'
    BY <1>4, <1>8 DEF Ops, Requests, Calls, Tries
  <2> HIDE DEF new
  <2>4. PICK i, id, k : i = at /\ id = TargetOf /\ k = step + 1
    OBVIOUS
  <2>5. /\ k \in DOMAIN Steps(traces[i]) /\ ops'[c].trace = i /\ ops'[c].target = id
        /\ ops'[c].post = Steps(traces[i])[k] /\ i \in DOMAIN traces
    BY <1>1, <1>5, <2>1, <2>4
  <2>6. k > 1 => Filled(i, id, k - 1)'
    <3>1. k > 1 => step > 0 /\ k - 1 = step
      BY <1>1, <2>4
    <3> QED
      BY <2>2, <2>4, <3>1
  <2> QED
    BY <1>2, <2>3, <2>5, <2>6 DEF InTurn, Filled, IsCopy, Done
<1>13. ReplayInv'
  <2>1. step' \in DOMAIN Steps(traces[at]) /\ issued' > 0 /\ step' > 0
    BY <1>1, <1>2, <1>5, <1>3 DEF Calls
  <2>2. ops'[issued'] = [trace |-> at', target |-> target', post |-> Steps(traces'[at'])[step']]
    BY <1>2, <1>4
  <2>3. step' > 1 => Filled(at, target, step - 1)'
    <3>1. step' - 1 = step /\ (step' > 1 => step > 0)
      BY <1>1, <1>2
    <3>2. step > 0 => \E i, id, n : i = at /\ id = TargetOf /\ n = step /\ Filled(i, id, n)'
      BY <1>6, <1>11
    <3> QED
      BY <1>2, <3>1, <3>2 DEF Filled, IsCopy, Done
  <2>4. at' \in 1..(Len(traces') + 1) /\ ~(at' > Len(traces'))
    BY <1>1, <1>2, TraceListsAssumption DEF ReplayInv, UploadTypes
  <2> HIDE DEF new
  <2> QED
    BY <1>1, <1>2, <2>1, <2>2, <2>3, <2>4 DEF ReplayInv
<1>14. UploadedInv'
  BY <1>2, <1>11 DEF UploadInv, UploadedInv
<1>15. FillingInv'
  <2>1. /\ FillingInv /\ runs \in Nat
    BY <1>1 DEF UploadInv, UploadTypes
  <2>2. ASSUME NEW i PROVE Filling(i)' = IF at = i /\ step > 0 THEN Filling(i) \cup {TargetOf} ELSE Filling(i)
    <3>1. ops'[c].trace = at /\ ops'[c].target = TargetOf /\ (ops'[c].post # Post("start") <=> step > 0)
      <4>1. ops'[c].trace = at /\ ops'[c].target = TargetOf /\ ops'[c].post = Steps(traces[at])[step + 1]
        BY <1>4
      <4>2. CASE step = 0
        BY <1>5, <4>1, <4>2
      <4>3. CASE step > 0
        BY <1>5, <4>1, <4>3
      <4> QED
        BY <1>1, <4>1, <4>2, <4>3
    <3> HIDE DEF new
    <3>2. Filling(i)' = {ops'[d].target : d \in {d \in 1..issued \cup {c} :
                                ops'[d].trace = i /\ ops'[d].post # Post("start")}}
      BY <1>2, <1>3 DEF Filling, Post
    <3> QED
      BY <1>4, <3>1, <3>2 DEF Filling
  <2>3. ASSUME NEW i \in DOMAIN traces, NEW r \in RemoteIds, remote[r].of = i, remote[r] # Empty(i)
        PROVE  r \in Filling(i)'
    BY <2>1, <2>2, <2>3 DEF FillingInv
  <2>4. ASSUME NEW i \in DOMAIN traces
        PROVE  Cardinality(Filling(i)') + (IF NotYet(i)' THEN 1 ELSE 0) <= runs
    <3>1. /\ Cardinality(Filling(i)) + (IF NotYet(i) THEN 1 ELSE 0) <= runs
          /\ IsFiniteSet(Filling(i)) /\ Cardinality(Filling(i)) \in Nat
      BY <1>2, <2>1, FillingFinite, FS_CardinalityType DEF FillingInv
    <3>2. NotYet(i)' => NotYet(i)
      BY <1>1, <1>2 DEF NotYet
    <3>3. CASE ~(at = i /\ step > 0)
      BY <2>1, <2>2, <3>1, <3>2, <3>3
    <3>4. CASE at = i /\ step = 1
      <4>1. NotYet(i) /\ ~NotYet(i)'
        BY <1>1, <1>2, <3>4 DEF NotYet, UploadTypes
      <4>2. /\ Cardinality(Filling(i) \cup {TargetOf}) <= Cardinality(Filling(i)) + 1
            /\ Cardinality(Filling(i) \cup {TargetOf}) \in Nat
        <5> DEFINE S == Filling(i)  x == TargetOf
        <5>1. IsFiniteSet(S) /\ Cardinality(S) \in Nat
          BY <3>1
        <5> HIDE DEF S, x
        <5>2. /\ IsFiniteSet(S \cup {x})
              /\ Cardinality(S \cup {x}) = IF x \in S THEN Cardinality(S) ELSE Cardinality(S) + 1
          BY <5>1, FS_AddElement
        <5> QED
          BY <5>1, <5>2 DEF S, x
      <4>3. Filling(i)' = Filling(i) \cup {TargetOf}
        BY <1>1, <2>2, <3>4
      <4>4. Cardinality(Filling(i)') <= Cardinality(Filling(i)) + 1 /\ Cardinality(Filling(i)') \in Nat
        BY <4>2, <4>3
      <4> QED
        BY <2>1, <3>1, <4>1, <4>4
    <3>5. CASE at = i /\ step > 1
      <4>1. ops[issued] = [trace |-> at, target |-> target, post |-> Steps(traces[at])[step]] /\ issued > 0
        BY <1>1, <3>5 DEF ReplayInv
      <4>2. issued \in 1..issued /\ ops[issued].post # Post("start") /\ TargetOf = target
        BY <1>1, <1>2, <1>5, <3>5, <4>1 DEF TargetOf
      <4>3. TargetOf \in Filling(i)
        BY <3>5, <4>1, <4>2 DEF Filling
      <4>4. Filling(i)' = Filling(i)
        BY <2>2, <4>3
      <4> QED
        BY <2>1, <3>1, <3>2, <4>4
    <3> QED
      BY <1>1, <3>3, <3>4, <3>5
  <2> QED
    BY <1>2, <2>3, <2>4 DEF FillingInv, RemoteIds, Empty
<1>16. \A d \in 1..issued' : InTurn(d)'
  BY <1>2, <1>3, <1>10, <1>12
<1> QED
  BY <1>9, <1>10, <1>13, <1>14, <1>15, <1>16 DEF UploadInv

LEMMA LessThanBefore ==
    \A c, b, a, r, q \in Nat : c + b <= r /\ a + r <= b + q => c + a <= q
OBVIOUS

\* A replay that ends is reported; a run that ends, or begins anew, changes no trace.
LEMMA ClientStep ==
    ASSUME IndInv, UploadInv, SentOnce',
           TraceUploaded \/ UploadReturns \/ UploadRaises \/ UploadAgain
    PROVE  UploadInv'
<1>1. /\ UNCHANGED <<vars, traces, ops, remote>> /\ runs' >= runs
      /\ UploadTypes /\ ReplayInv /\ UploadedInv /\ FillingInv /\ phase = "idle"
  BY DEF UploadInv, TraceUploaded, UploadReturns, UploadRaises, UploadAgain, UploadTypes, ReplayInv
<1>2. UNCHANGED <<issued, phase, tries, network, answers, applied, failed>>
  BY <1>1 DEF vars
<1>3. RemoteInv' /\ EffectsStay' /\ \A c \in 1..issued' : InTurn(c)'
  BY <1>1, <1>2, NothingApplied
<1>4. \A i, id, n : Filled(i, id, n)' <=> Filled(i, id, n)
  BY <1>1, <1>2 DEF Filled, IsCopy, Done
<1>5. \A i : Filling(i)' = Filling(i)
  BY <1>1, <1>2 DEF Filling
<1>6. ASSUME \A i \in DOMAIN traces : (IF NotYet(i)' THEN 1 ELSE 0) + runs <= (IF NotYet(i) THEN 1 ELSE 0) + runs'
      PROVE  FillingInv'
  <2>1. ASSUME NEW i \in DOMAIN traces
        PROVE  Cardinality(Filling(i)') + (IF NotYet(i)' THEN 1 ELSE 0) <= runs'
    <3>1. /\ Cardinality(Filling(i)) + (IF NotYet(i) THEN 1 ELSE 0) <= runs
          /\ Cardinality(Filling(i)) \in Nat /\ runs \in Nat
      BY <1>1, Wire, FillingFinite, FS_CardinalityType DEF FillingInv, UploadTypes
    <3>2. runs' \in Nat
      BY <1>1 DEF TraceUploaded, UploadReturns, UploadRaises, UploadAgain, UploadTypes
    <3> DEFINE before == IF NotYet(i) THEN 1 ELSE 0  after == IF NotYet(i)' THEN 1 ELSE 0
               card == Cardinality(Filling(i))
    <3>3. before \in Nat /\ after \in Nat /\ after + runs <= before + runs'
      BY <1>6
    <3>4. card \in Nat /\ card + before <= runs /\ runs \in Nat
      BY <3>1
    <3> HIDE DEF before, after, card
    <3>5. card + after <= runs'
      BY <3>2, <3>3, <3>4, LessThanBefore
    <3> QED
      BY <1>5, <3>5 DEF after, card
  <2> QED
    BY <1>1, <1>2, <1>5, <2>1 DEF FillingInv, RemoteIds, Empty
<1>7. CASE TraceUploaded
  <2>1. /\ run = "running" /\ at \in DOMAIN traces /\ at \in Nat /\ at <= Len(traces) /\ Len(traces) \in Nat
        /\ step = Len(Steps(traces[at])) /\ step \in Nat /\ step > 0 /\ ~LastRaised
    BY <1>1, <1>7, TracesType, TraceListsAssumption DEF TraceUploaded, UploadTypes, ReplayInv
  <2>2. /\ uploaded' = uploaded \cup {[local |-> at, id |-> TargetOf]}
        /\ at' = at + 1 /\ step' = 0 /\ target' = None /\ UNCHANGED <<run, runs>>
    BY <1>7 DEF TraceUploaded
  <2>3. Filled(at, TargetOf, step) /\ TargetOf \in Requests
    BY <1>1, <2>1, FilledSoFar
  <2>4. UploadTypes'
    BY <1>1, <1>2, <2>1, <2>2, <2>3 DEF UploadTypes, Requests, Calls, Tries
  <2>5. ReplayInv'
    BY <1>1, <1>2, <2>1, <2>2 DEF ReplayInv
  <2>6. UploadedInv'
    <3>1. ASSUME NEW u \in uploaded'
          PROVE  u.local \in DOMAIN traces /\ Filled(u.local, u.id, Len(Steps(traces[u.local])))
      BY <1>1, <2>1, <2>2, <2>3, <3>1 DEF UploadedInv
    <3> QED
      BY <1>1, <1>2, <3>1 DEF UploadedInv, Filled, IsCopy, Done
  <2>7. \A i \in DOMAIN traces : NotYet(i)' => NotYet(i)
    BY <1>1, <2>1, <2>2, TraceListsAssumption DEF NotYet, UploadTypes
  <2>8. FillingInv'
    BY <1>1, <1>6, <2>2, <2>7 DEF UploadTypes
  <2> QED
    BY <1>2, <1>3, <2>4, <2>5, <2>6, <2>8 DEF UploadInv
<1>8. CASE UploadReturns \/ UploadRaises \/ UploadAgain
  <2>1. /\ uploaded' = uploaded
        /\ run' \in {"running", "returned", "raised"} /\ runs' \in Nat
        /\ \/ run' # "running" /\ UNCHANGED <<at, step, target, runs>>
           \/ run' = "running" /\ at' = 1 /\ step' = 0 /\ target' = None /\ runs' = runs + 1
    BY <1>1, <1>8 DEF UploadReturns, UploadRaises, UploadAgain, UploadTypes
  <2>2. UploadTypes'
    BY <1>1, <1>2, <2>1 DEF UploadTypes, Requests, Calls, Tries
  <2>3. ReplayInv'
    <3>1. Len(traces) \in Nat
      BY <1>1, TraceListsAssumption DEF UploadTypes
    <3> QED
      BY <1>1, <1>2, <2>1, <3>1 DEF ReplayInv
  <2>4. UploadedInv'
    BY <1>1, <1>4, <2>1 DEF UploadedInv
  <2>5. FillingInv'
    <3>1. ASSUME NEW i \in DOMAIN traces
          PROVE (IF NotYet(i)' THEN 1 ELSE 0) + runs <= (IF NotYet(i) THEN 1 ELSE 0) + runs'
      <4>1. runs \in Nat
        BY <1>1 DEF UploadTypes
      <4>2. CASE run' # "running"
        <5>1. ~NotYet(i)' /\ runs' = runs
          BY <2>1, <4>2 DEF NotYet
        <5> QED
          BY <4>1, <5>1
      <4>3. CASE run' = "running"
        <5>1. runs' = runs + 1
          BY <2>1, <4>3
        <5> QED
          BY <4>1, <5>1
      <4> QED
        BY <4>2, <4>3
    <3> QED
      BY <1>6, <3>1
  <2> QED
    BY <1>2, <1>3, <2>2, <2>3, <2>4, <2>5 DEF UploadInv
<1> QED
  BY <1>7, <1>8

\* Where no call is made, only what is in the copies may change.
LEMMA FillingKept ==
    ASSUME UNCHANGED <<traces, ops, issued, run, runs, at, step>>, FillingInv,
           \A i \in DOMAIN traces, s \in Requests :
              remote'[s] # None /\ remote'[s].of = i /\ remote'[s] # Empty(i) => s \in Filling(i)
    PROVE  FillingInv'
<1>1. ASSUME NEW i PROVE Filling(i)' = Filling(i) /\ (NotYet(i)' <=> NotYet(i))
  BY DEF Filling, NotYet, Post
<1>2. ASSUME NEW i \in DOMAIN traces
      PROVE  Cardinality(Filling(i)') + (IF NotYet(i)' THEN 1 ELSE 0) <= runs'
  <2>1. Cardinality(Filling(i)) + (IF NotYet(i) THEN 1 ELSE 0) <= runs
    BY DEF FillingInv
  <2> QED
    BY <1>1, <2>1
<1> QED
  BY <1>1, <1>2 DEF FillingInv, RemoteIds, Empty, Requests, Calls, Tries

\* The transport alone moves only its own state.
LEMMA TransportAlone ==
    ASSUME IndInv, UploadInv, SentOnce', TransportStep
    PROVE  UploadInv'
<1>1. /\ UNCHANGED <<replay, remote, issued, applied>> /\ phase # "idle"
      /\ UploadTypes /\ ReplayInv /\ UploadedInv /\ FillingInv
  BY DEF TransportStep, Transport, Send, ConnectFails, TimedOut, Receive, UploadInv
<1>2. UNCHANGED <<traces, run, runs, at, step, target, ops, uploaded>>
  BY <1>1 DEF replay
<1>3. RemoteInv' /\ EffectsStay' /\ \A c \in 1..issued' : InTurn(c)'
  BY <1>1, <1>2, NothingApplied
<1>4. UploadTypes'
  BY <1>1, <1>2 DEF UploadTypes, Requests, Calls, Tries
<1>5. ReplayInv'
  BY <1>1, <1>2 DEF ReplayInv, Filled, IsCopy, Done
<1>6. UploadedInv'
  BY <1>1, <1>2 DEF UploadedInv, Filled, IsCopy, Done
<1>7. FillingInv'
  <2>1. ASSUME NEW i \in DOMAIN traces, NEW s \in Requests, remote'[s] # None, remote'[s].of = i,
               remote'[s] # Empty(i)
        PROVE  s \in Filling(i)
    BY <1>1, <2>1 DEF FillingInv, RemoteIds
  <2> QED
    BY <1>1, <1>2, <2>1, FillingKept
<1> QED
  BY <1>3, <1>4, <1>5, <1>6, <1>7 DEF UploadInv

\* The server answers a request: it applies it to the copy it is for, or not.
LEMMA ServeStep ==
    ASSUME IndInv, IndInv', UploadInv, SentOnce', ServeUpload
    PROVE  UploadInv'
<1>1. PICK r \in network, answer \in Answers, commits \in BOOLEAN :
        Serve(r, answer, commits) /\ remote' = IF commits THEN Effect(r) ELSE remote
  BY DEF ServeUpload
<1>2. /\ UNCHANGED <<traces, run, runs, at, step, target, ops, uploaded, issued, phase>>
      /\ UploadTypes /\ SentOnce /\ RemoteInv /\ EffectsStay /\ ReplayInv /\ UploadedInv /\ FillingInv
  BY <1>1 DEF ServeUpload, replay, Serve, UploadInv
<1>3. /\ r \in Requests /\ r[1] \in 1..issued /\ r \notin applied /\ InTurn(r[1])
      /\ issued \in Nat /\ \A s \in applied : s[1] \in 1..issued
  BY <1>1, <1>2, Wire DEF SentOnce, UploadInv
<1> DEFINE op == ops[r[1]]
<1>4. /\ \A c \in 1..issued : ops'[c] = ops[c]
      /\ applied \subseteq applied' /\ applied' = IF commits THEN applied \cup {r} ELSE applied
  BY <1>1, <1>2 DEF Serve
<1>5. \A i, id, n : Filled(i, id, n) => Filled(i, id, n)'
  BY <1>2, <1>4, FilledStays
<1>6. \A c \in 1..issued' : InTurn(c)'
  BY <1>2, <1>4, InTurnStays DEF UploadInv
<1>7. ReplayInv'
  BY <1>2, <1>5 DEF ReplayInv
<1>8. UploadedInv'
  BY <1>2, <1>5 DEF UploadedInv
<1>9. CASE ~commits
  <2>1. UNCHANGED <<remote, applied>>
    BY <1>1, <1>4, <1>9
  <2>2. RemoteInv' /\ EffectsStay'
    BY <1>2, <2>1, NothingApplied
  <2>3. UploadTypes' /\ FillingInv'
    BY <1>2, <2>1 DEF UploadTypes, FillingInv, Filling, NotYet, RemoteIds, Empty, Requests, Calls, Tries
  <2> QED
    BY <1>6, <1>7, <1>8, <2>2, <2>3 DEF UploadInv
<1>10. CASE commits /\ op.post.kind = "start"
  <2>1. op \in Ops /\ op.post = Post("start") /\ op.trace \in DOMAIN traces /\ op.trace \in Nat
    BY <1>3, <1>10, StartPost DEF InTurn, Ops
  <2>2. remote' = [remote EXCEPT ![r] = Empty(op.trace)] /\ applied' = applied \cup {r}
    BY <1>1, <1>4, <1>10 DEF Effect
  <2>3. /\ Empty(op.trace) \in HostedTrace /\ Empty(op.trace).of = op.trace
        /\ NothingElse(Empty(op.trace), traces[op.trace]) /\ Empty(op.trace) # None
    <3> DEFINE i == op.trace  e == Empty(i)
    <3>1. /\ e = [of |-> i, chunks |-> {}, selected |-> {}, answer |-> FALSE, checks |-> {}, events |-> <<>>]
          /\ i \in Nat /\ <<>> \in Seq(Events)
      BY <2>1 DEF Empty
    <3> HIDE DEF i
    <3>2. /\ e \in HostedTrace /\ e.of = i /\ e.chunks = {} /\ e.selected = {} /\ e.answer = FALSE
          /\ e.checks = {} /\ e.events = <<>>
      BY <3>1 DEF HostedTrace
    <3> HIDE DEF e
    <3>3. InOrder(e.events, traces[i].events)
      BY <3>2 DEF InOrder
    <3>4. NothingElse(e, traces[i])
      BY <3>2, <3>3 DEF NothingElse
    <3> QED
      BY <3>2, <3>4, NoneAssumption DEF e, i
  <2>4. /\ remote'[r] = Empty(op.trace)
        /\ \A s \in Requests \ {r} : remote'[s] = remote[s]
        /\ remote' \in [Requests -> HostedTrace \cup {None}]
    BY <1>2, <1>3, <2>2, <2>3 DEF UploadTypes
  <2>5. UploadTypes'
    BY <1>2, <2>4 DEF UploadTypes, Requests, Calls, Tries, Ops, HostedTrace
  <2>6. RemoteInv'
    <3>1. ASSUME NEW s \in Requests
          PROVE  remote'[s] # None <=> s \in applied' /\ ops'[s[1]].post = Post("start")
      BY <1>2, <2>1, <2>2, <2>3, <2>4 DEF RemoteInv
    <3>2. ASSUME NEW s \in Requests, remote'[s] # None
          PROVE  /\ remote'[s].of = ops'[s[1]].trace
                 /\ NothingElse(remote'[s], traces'[remote'[s].of])
      BY <1>2, <2>3, <2>4, <3>2 DEF RemoteInv, RemoteIds
    <3> QED
      BY <3>1, <3>2 DEF RemoteInv, RemoteIds, Requests, Calls, Tries, Post, NothingElse, InOrder
  <2>7. EffectsStay'
    <3>1. ASSUME NEW s \in applied', ops[s[1]].post.kind # "start"
          PROVE  Shows(remote'[ops[s[1]].target], traces[ops[s[1]].trace], ops[s[1]].post)
      <4>1. s \in applied /\ s[1] \in 1..issued /\ InTurn(s[1])
        BY <1>3, <1>10, <2>2, <3>1 DEF UploadInv
      <4>2. ops[s[1]].target \in applied
        BY <3>1, <4>1, TracesType, StartPost, <1>2 DEF InTurn, Filled, IsCopy
      <4>3. remote'[ops[s[1]].target] = remote[ops[s[1]].target]
        BY <1>3, <2>4, <4>2, Wire
      <4> QED
        BY <1>2, <3>1, <4>1, <4>3 DEF EffectsStay
    <3> QED
      BY <1>2, <3>1 DEF EffectsStay, Shows
  <2>8. FillingInv'
    <3>1. ASSUME NEW i \in DOMAIN traces, NEW s \in Requests, remote'[s] # None, remote'[s].of = i,
                 remote'[s] # Empty(i)
          PROVE  s \in Filling(i)
      BY <1>2, <2>3, <2>4, <3>1 DEF FillingInv, RemoteIds
    <3> QED
      BY <1>2, <3>1, FillingKept
  <2> QED
    BY <1>6, <1>7, <1>8, <2>5, <2>6, <2>7, <2>8 DEF UploadInv
<1>11. CASE commits /\ op.post.kind # "start"
  <2> DEFINE id == op.target  t == traces[op.trace]  row == remote[id]  after == AppliedTo(row, t, op.post)
  <2>1. PICK k \in DOMAIN Steps(t) : op.post = Steps(t)[k] /\ (k > 1 => Filled(op.trace, id, k - 1))
    BY <1>3 DEF InTurn
  <2>2. /\ op \in Ops /\ op.trace \in DOMAIN traces /\ t \in LocalTrace /\ t.selected \subseteq t.chunks
        /\ Steps(t) \in Seq(Posts) /\ k \in 2..Len(Steps(t)) /\ op.post # Post("start")
    <3>1. op \in Ops /\ op.trace \in DOMAIN traces
      BY <1>3 DEF InTurn
    <3>2. /\ t \in LocalTrace /\ t.selected \subseteq t.chunks /\ Steps(t) \in Seq(Posts)
          /\ DOMAIN Steps(t) = 1..Len(Steps(t)) /\ Steps(t)[1] = Post("start") /\ Len(Steps(t)) \in Nat
      BY <1>2, <3>1, TracesType
    <3>3. op.post # Post("start")
      BY <1>11, StartPost
    <3> HIDE DEF op, t
    <3> QED
      BY <2>1, <3>1, <3>2, <3>3
  <2>3. Filled(op.trace, id, k - 1) /\ IsCopy(id, op.trace) /\ id \in applied /\ id \in Requests
    BY <2>1, <2>2, Wire DEF Filled, IsCopy
  <2>4. /\ row \in HostedTrace /\ row # None /\ row.of = op.trace /\ NothingElse(row, t)
    BY <1>2, <2>3 DEF RemoteInv, RemoteIds, IsCopy, UploadTypes
  <2>5. \A h \in 2..(k - 1) : Shows(row, t, Steps(t)[h])
    <3>1. ASSUME NEW h \in 2..(k - 1) PROVE Shows(row, t, Steps(t)[h])
      <4>1. PICK s \in applied : ops[s[1]] = [trace |-> op.trace, target |-> id, post |-> Steps(t)[h]]
        BY <2>3 DEF Filled, Done
      <4>2. Steps(t)[h].kind # "start"
        BY <2>2, StepsShape
      <4> QED
        BY <1>2, <4>1, <4>2 DEF EffectsStay
    <3> QED
      BY <3>1
  <2>6. /\ after \in HostedTrace /\ after.of = op.trace /\ NothingElse(after, t) /\ Shows(after, t, op.post)
        /\ \A p \in Posts : Shows(row, t, p) => Shows(after, t, p)
    BY <2>1, <2>2, <2>4, <2>5, AppliedKeeps
  <2>7. remote' = [remote EXCEPT ![id] = after] /\ applied' = applied \cup {r}
    BY <1>1, <1>4, <1>11 DEF Effect
  <2> HIDE DEF after
  <2>8. /\ remote'[id] = after /\ after # None
        /\ \A s \in Requests \ {id} : remote'[s] = remote[s]
        /\ remote' \in [Requests -> HostedTrace \cup {None}]
    BY <1>2, <2>3, <2>6, <2>7, NoneAssumption DEF UploadTypes
  <2>9. UploadTypes'
    BY <1>2, <2>8 DEF UploadTypes, Requests, Calls, Tries, Ops, HostedTrace
  <2>10. RemoteInv'
    <3>1. ASSUME NEW s \in Requests
          PROVE  remote'[s] # None <=> s \in applied' /\ ops'[s[1]].post = Post("start")
      BY <1>2, <2>2, <2>3, <2>7, <2>8 DEF RemoteInv, IsCopy
    <3>2. ASSUME NEW s \in Requests, remote'[s] # None
          PROVE  /\ remote'[s].of = ops'[s[1]].trace
                 /\ NothingElse(remote'[s], traces'[remote'[s].of])
      BY <1>2, <2>3, <2>6, <2>8, <3>2 DEF RemoteInv, RemoteIds, IsCopy
    <3> QED
      BY <3>1, <3>2 DEF RemoteInv, RemoteIds, Requests, Calls, Tries, Post, NothingElse, InOrder
  <2>11. EffectsStay'
    <3>1. ASSUME NEW s \in applied', ops[s[1]].post.kind # "start"
          PROVE  Shows(remote'[ops[s[1]].target], traces[ops[s[1]].trace], ops[s[1]].post)
      <4>1. CASE s = r
        BY <2>6, <2>8, <4>1
      <4>2. CASE s # r
        <5>1. s \in applied /\ s[1] \in 1..issued /\ InTurn(s[1])
          BY <1>3, <2>7, <4>2 DEF UploadInv
        <5>2. /\ IsCopy(ops[s[1]].target, ops[s[1]].trace) /\ ops[s[1]].post \in Posts
              /\ ops[s[1]].target \in Requests
          BY <3>1, <5>1, TracesType, StartPost, <1>2, Wire DEF InTurn, Filled, IsCopy, Ops
        <5>3. Shows(remote[ops[s[1]].target], traces[ops[s[1]].trace], ops[s[1]].post)
          BY <1>2, <3>1, <5>1 DEF EffectsStay
        <5>4. CASE ops[s[1]].target = id
          <6>1. ops[s[1]].trace = op.trace
            BY <2>3, <5>2, <5>4 DEF IsCopy
          <6> QED
            BY <2>6, <2>8, <5>2, <5>3, <5>4, <6>1
        <5>5. CASE ops[s[1]].target # id
          BY <2>8, <5>2, <5>3, <5>5
        <5> QED
          BY <5>4, <5>5
      <4> QED
        BY <4>1, <4>2
    <3> QED
      BY <1>2, <3>1 DEF EffectsStay, Shows
  <2>12. FillingInv'
    <3>1. ASSUME NEW i \in DOMAIN traces, NEW s \in Requests, remote'[s] # None, remote'[s].of = i,
                 remote'[s] # Empty(i)
          PROVE  s \in Filling(i)
      <4>1. CASE s = id
        <5>1. i = op.trace
          BY <2>6, <2>8, <3>1, <4>1
        <5> QED
          BY <1>3, <2>2, <4>1, <5>1 DEF Filling
      <4>2. CASE s # id
        BY <1>2, <2>8, <3>1, <4>2 DEF FillingInv, RemoteIds
      <4> QED
        BY <4>1, <4>2
    <3> QED
      BY <1>2, <3>1, FillingKept
  <2> QED
    BY <1>6, <1>7, <1>8, <2>9, <2>10, <2>11, <2>12 DEF UploadInv
<1> QED
  BY <1>9, <1>10, <1>11

-----------------------------------------------------------------------------
(* The invariant holds.                                                    *)

LEMMA UploadStarts == UploadInit => IndInv /\ UploadInv
<1> SUFFICES ASSUME UploadInit PROVE IndInv /\ UploadInv
  OBVIOUS
<1>1. /\ issued = 0 /\ phase = "idle" /\ network = {} /\ applied = {} /\ traces \in TraceLists
      /\ run = "running" /\ runs = 1 /\ at = 1 /\ step = 0 /\ target = None
      /\ ops = [c \in Calls |-> None] /\ remote = [r \in Requests |-> None] /\ uploaded = {}
  BY DEF UploadInit, Init
<1>2. IndInv
  BY InitHolds DEF UploadInit
<1>3. UploadTypes
  BY <1>1 DEF UploadTypes
<1>4. SentOnce /\ UploadedInv /\ EffectsStay /\ RemoteInv
  BY <1>1 DEF SentOnce, UploadedInv, EffectsStay, RemoteInv, RemoteIds
<1>5. 1..issued = {}
  BY <1>1
<1>6. ReplayInv
  <2>1. Len(traces) \in Nat
    BY <1>1, TraceListsAssumption
  <2> QED
    BY <1>1, <2>1 DEF ReplayInv
<1>7. FillingInv
  <2>1. ASSUME NEW i \in DOMAIN traces PROVE Filling(i) = {} /\ Cardinality(Filling(i)) = 0
    BY <1>5, FS_EmptySet DEF Filling
  <2> QED
    BY <1>1, <2>1 DEF FillingInv, RemoteIds
<1> QED
  BY <1>2, <1>3, <1>4, <1>5, <1>6, <1>7 DEF UploadInv

LEMMA UploadStep == IndInv /\ UploadInv /\ [UploadNext]_allvars => (IndInv /\ UploadInv)'
<1> SUFFICES ASSUME IndInv, UploadInv, [UploadNext]_allvars PROVE (IndInv /\ UploadInv)'
  OBVIOUS
<1>1. [Next]_vars /\ IndInv'
  BY TransportMoves, NextHolds
<1>2. SentOnce'
  BY <1>1, SentOnceStep DEF UploadInv
<1>3. CASE NextCall
  BY <1>1, <1>2, <1>3, NextCallStep
<1>4. CASE TraceUploaded \/ UploadReturns \/ UploadRaises \/ UploadAgain
  BY <1>1, <1>2, <1>4, ClientStep
<1>5. CASE TransportStep
  BY <1>1, <1>2, <1>5, TransportAlone
<1>6. CASE ServeUpload
  BY <1>1, <1>2, <1>6, ServeStep
<1>7. CASE UNCHANGED allvars
  <2>1. UNCHANGED <<traces, run, runs, at, step, target, ops, uploaded, remote, issued, phase, applied>>
    BY <1>7 DEF allvars, replay, vars
  <2>2. RemoteInv' /\ EffectsStay' /\ \A c \in 1..issued' : InTurn(c)'
    BY <2>1, NothingApplied
  <2>3. UploadTypes' /\ UploadedInv' /\ ReplayInv'
    BY <2>1 DEF UploadInv, UploadTypes, UploadedInv, ReplayInv, Filled, IsCopy, Done, Requests, Calls, Tries
  <2>4. FillingInv'
    BY <2>1, FillingKept DEF UploadInv, FillingInv, RemoteIds
  <2> QED
    BY <1>1, <1>2, <2>2, <2>3, <2>4 DEF UploadInv
<1> QED
  BY <1>3, <1>4, <1>5, <1>6, <1>7 DEF UploadNext, Client

LEMMA UploadInvariance == UploadSpec => [](IndInv /\ UploadInv)
BY UploadStarts, UploadStep, PTL DEF UploadSpec

\* The transport under upload_traces is that of HttpRetry, whose calls reach the
\* server at least once (transport.py, _request).
THEOREM UploadsOverRetries == UploadSpec => [](TypeOK /\ AcknowledgedIsApplied)
BY UploadInvariance, PTL DEF IndInv

\* Every value the replay and the hosted store keep is of its kind (client.py,
\* _replay_trace).
THEOREM UploadTypesHold == UploadSpec => []UploadTypes
<1>1. IndInv /\ UploadInv => UploadTypes
  BY DEF UploadInv
<1> QED
  BY <1>1, UploadInvariance, PTL

LEMMA FilledIsComplete ==
    ASSUME IndInv, UploadInv, NEW i \in DOMAIN traces, NEW id, Filled(i, id, Len(Steps(traces[i])))
    PROVE  LET t == traces[i]  row == remote[id] IN
           /\ row # None
           /\ <<row.of, row.chunks, row.selected, row.answer, row.checks>>
                = <<i, t.chunks, t.selected, t.answer, t.checks>>
           /\ HasAll(row.events, t.events) /\ InOrder(row.events, t.events)
<1> DEFINE t == traces[i]  row == remote[id]  s == Steps(t)
<1>1. UploadTypes /\ RemoteInv /\ EffectsStay
  BY DEF UploadInv
<1>2. /\ t \in LocalTrace /\ t.selected \subseteq t.chunks /\ s \in Seq(Posts)
  BY <1>1, TracesType
<1>3. /\ id \in applied /\ ops[id[1]].trace = i /\ ops[id[1]].post = Post("start") /\ id \in Requests
      /\ \A k \in 2..Len(s) : Done(i, id, k)
  BY Wire DEF Filled, IsCopy
<1>4. row \in HostedTrace /\ row # None /\ row.of = i /\ NothingElse(row, t)
  BY <1>1, <1>3 DEF RemoteInv, RemoteIds, UploadTypes
<1>5. ASSUME NEW k \in 2..Len(s) PROVE Shows(row, t, s[k])
  <2>1. PICK r \in applied : ops[r[1]] = [trace |-> i, target |-> id, post |-> s[k]]
    BY <1>3 DEF Done
  <2>2. s[k].kind # "start"
    BY <1>2, StepsShape
  <2> QED
    BY <1>1, <2>1, <2>2 DEF EffectsStay
<1>6. /\ t.chunks # {} => \E k \in 2..Len(s) : s[k].kind = "retrieval"
      /\ t.selected # {} => \E k \in 2..Len(s) : s[k].kind = "context"
      /\ t.answer => \E k \in 2..Len(s) : s[k].kind = "answer"
      /\ t.checks # {} => \E k \in 2..Len(s) : s[k].kind = "citations"
      /\ \A j \in DOMAIN t.events : \E k \in 2..Len(s) : s[k] = EventPost(t.events[j])
  BY <1>2, StepsShape
<1> HIDE DEF s, t, row
<1>7. /\ row.chunks \subseteq t.chunks /\ row.selected \subseteq t.selected
      /\ row.checks = {} \/ row.checks = t.checks
      /\ InOrder(row.events, t.events)
      /\ row.answer => t.answer
  BY <1>4 DEF NothingElse
<1>8. t.chunks \subseteq row.chunks
  BY <1>5, <1>6 DEF Shows
<1>9. t.selected \subseteq row.selected
  BY <1>5, <1>6 DEF Shows
<1>10. row.checks = t.checks
  BY <1>5, <1>6, <1>7 DEF Shows
<1>11. row.answer = t.answer
  <2>1. row.answer \in BOOLEAN /\ t.answer \in BOOLEAN
    BY <1>2, <1>4 DEF HostedTrace, LocalTrace
  <2>2. t.answer => row.answer
    BY <1>5, <1>6 DEF Shows
  <2>3. row.answer = TRUE <=> t.answer = TRUE
    BY <1>7, <2>1, <2>2
  <2> QED
    BY <2>1, <2>3
<1>12. HasAll(row.events, t.events)
  <2>1. ASSUME NEW j \in DOMAIN t.events PROVE \E p \in DOMAIN row.events : row.events[p] = t.events[j]
    <3>1. PICK k \in 2..Len(s) : s[k] = EventPost(t.events[j])
      BY <1>6
    <3>2. s[k].kind = "event" /\ s[k].event = t.events[j]
      BY <3>1 DEF EventPost
    <3> QED
      BY <1>5, <3>2 DEF Shows
  <2> QED
    BY <2>1 DEF HasAll
<1>13. row.chunks = t.chunks /\ row.selected = t.selected
  BY <1>7, <1>8, <1>9
<1>14. <<row.of, row.chunks, row.selected, row.answer, row.checks>>
         = <<i, t.chunks, t.selected, t.answer, t.checks>>
  <2>1. \A a, b, c, d, e, v, w, x, y, z :
          a = v /\ b = w /\ c = x /\ d = y /\ e = z => <<a, b, c, d, e>> = <<v, w, x, y, z>>
    OBVIOUS
  <2>2. row.of = i
    BY <1>4
  <2> QED
    BY <1>10, <1>11, <1>13, <2>1, <2>2, Zenon
<1>15. row # None /\ InOrder(row.events, t.events)
  BY <1>4, <1>7
<1>16. /\ row # None
       /\ <<row.of, row.chunks, row.selected, row.answer, row.checks>>
            = <<i, t.chunks, t.selected, t.answer, t.checks>>
       /\ HasAll(row.events, t.events) /\ InOrder(row.events, t.events)
  BY <1>12, <1>14, <1>15, Zenon
<1> QED
  BY <1>16, Zenon DEF t, row

\* What upload_traces reports is complete and stays so (client.py, _replay_trace;
\* apps/api/app/services/traces.py): the calls of a replay are made in their
\* order, each after the one before it was applied, and no try that arrives late
\* takes anything away.
THEOREM UploadsAreComplete == UploadSpec => []UploadedIsComplete
<1>1. IndInv /\ UploadInv => UploadedIsComplete
  <2> SUFFICES ASSUME IndInv, UploadInv PROVE UploadedIsComplete
    OBVIOUS
  <2>1. ASSUME NEW u \in uploaded
        PROVE  u.local \in DOMAIN traces /\ Filled(u.local, u.id, Len(Steps(traces[u.local])))
    BY DEF UploadInv, UploadedInv
  <2> QED
    BY <2>1, FilledIsComplete DEF UploadedIsComplete
<1> QED
  BY <1>1, UploadInvariance, PTL

\* A run of upload_traces fills one copy of a trace at most (client.py,
\* upload_traces): the calls that bring content carry the one id it learned.
THEOREM CopiesAreFew == UploadSpec => []OneFilledCopyPerRun
<1>1. IndInv /\ UploadInv => OneFilledCopyPerRun
  <2> SUFFICES ASSUME IndInv, UploadInv, NEW i \in DOMAIN traces
               PROVE  Cardinality({r \in RemoteIds : remote[r].of = i /\ remote[r] # Empty(i)}) <= runs
    BY DEF OneFilledCopyPerRun
  <2> DEFINE S == {r \in RemoteIds : remote[r].of = i /\ remote[r] # Empty(i)}
  <2>1. S \subseteq Filling(i)
    BY DEF UploadInv, FillingInv
  <2>2. IsFiniteSet(Filling(i)) /\ Cardinality(Filling(i)) \in Nat
    BY Wire, FillingFinite, FS_CardinalityType
  <2>3. Cardinality(S) \in Nat /\ Cardinality(S) <= Cardinality(Filling(i))
    BY <2>1, <2>2, FS_Subset, FS_CardinalityType
  <2>4. Cardinality(Filling(i)) + (IF NotYet(i) THEN 1 ELSE 0) <= runs /\ runs \in Nat
    BY DEF UploadInv, FillingInv, UploadTypes
  <2> HIDE DEF S
  <2>5. Cardinality(S) <= runs
    BY <2>2, <2>3, <2>4
  <2> QED
    BY <2>5 DEF S
<1> QED
  BY <1>1, UploadInvariance, PTL


-----------------------------------------------------------------------------
(* Settings and the policy.                                                *)

\* The first of four layers that gives a value decides.
LEMMA FirstOfFour ==
  ASSUME NEW a, NEW b, NEW c, NEW d
  PROVE  FirstOf(<<a, b, c, d>>) =
           IF a # Nothing THEN a ELSE IF b # Nothing THEN b ELSE IF c # Nothing THEN c ELSE d
<1> DEFINE values == <<a, b, c, d>>
           given == {i \in 1..4 : values[i] # Nothing}
           IsFirst(i) == \A j \in given : i <= j
<1>1. DOMAIN values = 1..4 /\ values[1] = a /\ values[2] = b /\ values[3] = c /\ values[4] = d
  OBVIOUS
<1>2. FirstOf(values) = IF given = {} THEN Nothing ELSE values[CHOOSE i \in given : IsFirst(i)]
  BY <1>1 DEF FirstOf
<1>3. ASSUME NEW i \in given, IsFirst(i) PROVE (CHOOSE j \in given : IsFirst(j)) = i
  <2>1. \A j \in given : IsFirst(j) => j = i
    BY <1>3
  <2> QED BY <1>3, <2>1
<1>4. CASE a # Nothing
  <2>1. 1 \in given /\ IsFirst(1)
    BY <1>1, <1>4
  <2> QED BY <1>1, <1>2, <1>3, <1>4, <2>1
<1>5. CASE a = Nothing /\ b # Nothing
  <2>1. 2 \in given /\ IsFirst(2)
    BY <1>1, <1>5
  <2> QED BY <1>1, <1>2, <1>3, <1>5, <2>1
<1>6. CASE a = Nothing /\ b = Nothing /\ c # Nothing
  <2>1. 3 \in given /\ IsFirst(3)
    BY <1>1, <1>6
  <2> QED BY <1>1, <1>2, <1>3, <1>6, <2>1
<1>7. CASE a = Nothing /\ b = Nothing /\ c = Nothing /\ d # Nothing
  <2>1. 4 \in given /\ IsFirst(4)
    BY <1>1, <1>7
  <2> QED BY <1>1, <1>2, <1>3, <1>7, <2>1
<1>8. CASE a = Nothing /\ b = Nothing /\ c = Nothing /\ d = Nothing
  <2>1. given = {}
    BY <1>1, <1>8
  <2> QED BY <1>2, <1>8, <2>1
<1> QED BY <1>4, <1>5, <1>6, <1>7, <1>8

\* Nothing is no value of any kind.
LEMMA NothingApart ==
  /\ Nothing # "strict" /\ Nothing \notin TrueWords /\ Nothing # {}
  /\ Nothing \notin Texts \cup Names \cup Values \cup Idents \cup ChunkRow
BY NothingAssumption DEF Profiles

\* A setting that some layer gives does not depend on its default.
LEMMA GivenSetting ==
  ASSUME NEW s, NEW key, NEW default, Setting(s, key, Nothing) # Nothing
  PROVE  Setting(s, key, default) = Setting(s, key, Nothing)
BY FirstOfFour DEF Setting

\* What the settings ask for is what the policy does.
LEMMA PolicyAsAsked ==
  ASSUME NEW s
  PROVE  /\ AskedFor(s, "privacy", {"strict"}) => PolicyOf(s).profile = "strict"
         /\ AskedFor(s, "hash_only", TrueWords) => PolicyOf(s).hashOnly
         /\ HidesMetadata(s) => PolicyOf(s).allowlist = {}
<1> DEFINE profile == Setting(s, "privacy", "standard")
           hash == Setting(s, "hash_only", Nothing)
           list == AsTuple(Setting(s, "allowlist", Nothing))
<1>1. ASSUME AskedFor(s, "privacy", {"strict"})
      PROVE  s.policy = Nothing /\ profile = "strict"
  <2>1. Setting(s, "privacy", Nothing) = "strict" /\ Setting(s, "privacy", Nothing) # Nothing
    BY <1>1, NothingApart DEF AskedFor
  <2> QED BY <1>1, <2>1, GivenSetting DEF AskedFor
<1>2. ASSUME AskedFor(s, "hash_only", TrueWords)
      PROVE  s.policy = Nothing /\ AsBool(Setting(s, "hash_only", "false"))
  <2>1. s.policy = Nothing /\ hash \in TrueWords
    BY <1>2 DEF AskedFor
  <2>2. hash # Nothing
    BY <2>1, NothingApart
  <2>3. Setting(s, "hash_only", "false") = hash
    BY <2>2, GivenSetting
  <2> QED BY <2>1, <2>3 DEF AsBool
<1>3. HidesMetadata(s) => list = Nothing /\ AskedFor(s, "privacy", {"strict"})
  BY DEF AsTuple, HidesMetadata
<1>4. ASSUME s.policy = Nothing
      PROVE  /\ PolicyOf(s).profile = profile
             /\ PolicyOf(s).hashOnly = AsBool(Setting(s, "hash_only", "false"))
             /\ list = Nothing /\ profile = "strict" => PolicyOf(s).allowlist = {}
  BY <1>4 DEF PolicyOf
<1>5. AskedFor(s, "privacy", {"strict"}) => PolicyOf(s).profile = "strict"
  BY <1>1, <1>4
<1>6. AskedFor(s, "hash_only", TrueWords) => PolicyOf(s).hashOnly
  BY <1>2, <1>4
<1>7. HidesMetadata(s) => PolicyOf(s).allowlist = {}
  BY <1>1, <1>3, <1>4
<1> QED BY <1>5, <1>6, <1>7

\* Nothing, or protected.
Safe(s, v) == v = Nothing \/ IsProtected(s, v)

\* What the policy has passed is safe, a marker too.
LEMMA TextSafe ==
  ASSUME NEW s, NEW text, NEW field \in Fields
  PROVE  Safe(s, ProtectText(PolicyOf(s), field, text)) /\ Safe(s, Marker(field))
<1> DEFINE p == PolicyOf(s)
           v == ProtectText(p, field, text)
<1>1. /\ AskedFor(s, "privacy", {"strict"}) => p.profile = "strict"
      /\ AskedFor(s, "hash_only", TrueWords) => p.hashOnly
  BY PolicyAsAsked
<1>2. Safe(s, v)
  <2>1. CASE text = Nothing
    BY <2>1 DEF ProtectText, Safe
  <2>2. CASE text # Nothing /\ p.hashOnly
    <3>1. v = [form |-> "hash", of |-> text]
      BY <2>2 DEF ProtectText, Value
    <3> QED BY <3>1 DEF IsProtected, Safe
  <2>3. CASE text # Nothing /\ ~p.hashOnly /\ p.cipher
    <3>1. v.form = "enc"
      BY <2>3 DEF ProtectText, Value
    <3> QED BY <1>1, <2>3, <3>1 DEF IsProtected, Safe
  <2>4. CASE text # Nothing /\ ~p.hashOnly /\ ~p.cipher /\ p.profile = "strict"
    <3>1. v.form = field
      BY <2>4 DEF ProtectText, Value, Marker
    <3> QED BY <1>1, <2>4, <3>1 DEF IsProtected, Fields, Safe
  <2>5. CASE text # Nothing /\ ~p.hashOnly /\ ~p.cipher /\ p.profile # "strict"
    <3>1. v = IF p.patterns /\ text \in Matched THEN [form |-> "masked", of |-> text]
              ELSE [form |-> "plain", of |-> text]
      BY <2>5 DEF ProtectText, Value, Plain
    <3> QED BY <1>1, <2>5, <3>1 DEF IsProtected, Safe
  <2> QED BY <2>1, <2>2, <2>3, <2>4, <2>5
<1>3. Safe(s, Marker(field))
  BY DEF IsProtected, Marker, Value, Fields, Safe
<1> QED BY <1>2, <1>3

\* So is metadata, and where the settings hide it none is kept.
SafeMetadata(s, metadata) ==
  \A key \in DOMAIN metadata :
     Safe(s, metadata[key]) /\ (HidesMetadata(s) => metadata[key] = Nothing)

LEMMA MetadataSafe ==
  ASSUME NEW s, NEW metadata
  PROVE  SafeMetadata(s, ProtectMetadata(PolicyOf(s), metadata))
<1>1. "metadata" \in Fields
  BY DEF Fields
<1>2. \A text : Safe(s, ProtectText(PolicyOf(s), "metadata", text))
  BY <1>1, TextSafe
<1>3. HidesMetadata(s) => PolicyOf(s).allowlist = {} /\ PolicyOf(s).allowlist # Nothing
  BY NothingApart, PolicyAsAsked
<1> QED BY <1>2, <1>3 DEF ProtectMetadata, SafeMetadata, Safe

-----------------------------------------------------------------------------
(* What a call carries, and what it leaves in the store.                   *)

SafeTexts(s, texts) == \A v \in texts : Safe(s, v)

\* A call that the policy has passed, by its kind.
SafeCall(s, call) ==
  \/ call.kind = "start" /\ Safe(s, call.query) /\ SafeMetadata(s, call.metadata)
  \/ /\ call.kind \in {"retrieval", "context"}
     /\ \E n \in Nat : DOMAIN call.chunks = 1..n
     /\ \A i \in DOMAIN call.chunks : SafeTexts(s, ChunkTexts(call.chunks[i]))
  \/ call.kind = "answer" /\ Safe(s, call.text)
  \/ call.kind = "citations" /\ \A k \in call.citations : Safe(s, k.claim)
  \/ call.kind = "event" /\ SafeTexts(s, EventTexts(call.event))

LEMMA StartSafe ==
  ASSUME NEW s, NEW query, NEW metadata
  PROVE  SafeCall(s, Sanitized(PolicyOf(s), [kind |-> "start", query |-> query, metadata |-> metadata]))
<1> DEFINE call == [kind |-> "start", query |-> query, metadata |-> metadata]
<1>1. Sanitized(PolicyOf(s), call)
        = [kind |-> "start", query |-> ProtectText(PolicyOf(s), "query", query),
           metadata |-> ProtectMetadata(PolicyOf(s), metadata)]
  BY DEF Sanitized
<1>2. Safe(s, ProtectText(PolicyOf(s), "query", query))
  BY TextSafe DEF Fields
<1>3. SafeMetadata(s, ProtectMetadata(PolicyOf(s), metadata))
  BY MetadataSafe
<1> QED BY <1>1, <1>2, <1>3 DEF SafeCall

LEMMA ChunksSafe ==
  ASSUME NEW s, NEW kind \in {"retrieval", "context"}, NEW chunks \in Seq(ChunkItem), NEW ids
  PROVE  SafeCall(s, Sanitized(PolicyOf(s), [kind |-> kind, chunks |-> chunks, ids |-> ids]))
<1> DEFINE p == PolicyOf(s)
           call == [kind |-> kind, chunks |-> chunks, ids |-> ids]
           safe == SafeChunks(p, chunks)
<1>1. Sanitized(p, call)
        = [kind |-> kind, chunks |-> safe, ids |-> {ProtectIdentifier(p, name) : name \in ids}]
  BY DEF Sanitized
<1>2. DOMAIN safe = 1..Len(chunks) /\ Len(chunks) \in Nat
  BY DEF SafeChunks
<1>3. ASSUME NEW i \in DOMAIN chunks PROVE SafeTexts(s, ChunkTexts(safe[i]))
  <2>1. /\ safe[i].content = ProtectText(p, "chunk_text", chunks[i].content)
        /\ safe[i].source = ProtectText(p, "source", chunks[i].source)
        /\ safe[i].stance = ProtectMetadata(p, [stance |-> chunks[i].stance]).stance
    BY DEF SafeChunks, SafeChunk
  <2>2. Safe(s, safe[i].content) /\ Safe(s, safe[i].source)
    BY <2>1, TextSafe DEF Fields
  <2>3. Safe(s, ProtectMetadata(p, [stance |-> chunks[i].stance]).stance)
    <3> DEFINE metadata == [stance |-> chunks[i].stance]
    <3>1. SafeMetadata(s, ProtectMetadata(p, metadata))
      BY MetadataSafe
    <3>2. "stance" \in DOMAIN ProtectMetadata(p, metadata)
      BY DEF ProtectMetadata
    <3> QED BY <3>1, <3>2 DEF SafeMetadata
  <2> QED BY <2>1, <2>2, <2>3 DEF SafeTexts, ChunkTexts
<1> QED BY <1>1, <1>2, <1>3 DEF SafeCall

LEMMA AnswerSafe ==
  ASSUME NEW s, NEW text, NEW tokens
  PROVE  SafeCall(s, Sanitized(PolicyOf(s), [kind |-> "answer", text |-> text, tokens |-> tokens]))
<1>1. Sanitized(PolicyOf(s), [kind |-> "answer", text |-> text, tokens |-> tokens])
        = [kind |-> "answer", text |-> ProtectText(PolicyOf(s), "answer_text", text), tokens |-> tokens]
  BY DEF Sanitized
<1>2. Safe(s, ProtectText(PolicyOf(s), "answer_text", text))
  BY TextSafe DEF Fields
<1> DEFINE safe == [kind |-> "answer", text |-> ProtectText(PolicyOf(s), "answer_text", text), tokens |-> tokens]
<1>3. safe.kind = "answer" /\ safe.text = ProtectText(PolicyOf(s), "answer_text", text)
  OBVIOUS
<1>4. SafeCall(s, safe)
  BY <1>2, <1>3 DEF SafeCall
<1> QED BY <1>1, <1>4

LEMMA CitationsSafe ==
  ASSUME NEW s, NEW citations
  PROVE  SafeCall(s, Sanitized(PolicyOf(s), [kind |-> "citations", citations |-> citations]))
<1>1. Sanitized(PolicyOf(s), [kind |-> "citations", citations |-> citations])
        = [kind |-> "citations", citations |-> {SafeCitation(PolicyOf(s), k) : k \in citations}]
  BY DEF Sanitized
<1>2. \A k : Safe(s, SafeCitation(PolicyOf(s), k).claim)
  BY TextSafe DEF SafeCitation, Fields
<1> QED BY <1>1, <1>2 DEF SafeCall

LEMMA EventSafe ==
  ASSUME NEW s, NEW event
  PROVE  SafeCall(s, Sanitized(PolicyOf(s), EventCall(event)))
<1> DEFINE p == PolicyOf(s)
<1>1. Sanitized(p, EventCall(event)) = [kind |-> "event", event |-> SafeEvent(p, event)]
  BY DEF Sanitized, EventCall
<1>2. \A text : \A field \in Fields : Safe(s, ProtectText(p, field, text))
  BY TextSafe
<1>3. SafeTexts(s, EventTexts(SafeEvent(p, event)))
  BY <1>2 DEF SafeEvent, SafeTexts, EventTexts, Fields
<1> QED BY <1>1, <1>3 DEF SafeCall

\* The texts of a safe call are protected.
LEMMA TextsInSafe ==
  ASSUME NEW s, NEW call, SafeCall(s, call), NEW v \in TextsIn(call)
  PROVE  IsProtected(s, v)
<1>1. v # Nothing
  BY DEF TextsIn
<1>2. Safe(s, v)
  <2>1. CASE call.kind = "start"
    BY <2>1 DEF SafeCall, TextsIn, SafeMetadata
  <2>2. CASE call.kind \in {"retrieval", "context"}
    BY <2>2 DEF SafeCall, TextsIn, SafeTexts, ChunkTexts
  <2>3. CASE call.kind = "answer"
    BY <2>3 DEF SafeCall, TextsIn
  <2>4. CASE call.kind = "citations"
    BY <2>4 DEF SafeCall, TextsIn
  <2>5. CASE call.kind = "event"
    BY <2>5 DEF SafeCall, TextsIn, SafeTexts, EventTexts
  <2> QED BY <2>1, <2>2, <2>3, <2>4, <2>5 DEF SafeCall
<1> QED BY <1>1, <1>2 DEF Safe

-----------------------------------------------------------------------------
(* The trace in the local store.                                           *)

\* A set of places in a list has a last one.
LEMMA LastPlace ==
  ASSUME NEW n \in Nat, NEW places, places \subseteq 1..n, places # {}
  PROVE  \E i \in places : \A j \in places : j <= i
<1> DEFINE left == {k \in 0..n : n - k \in places}
<1>1. left \subseteq Nat /\ \A i \in places : n - i \in left
  <2>1. \A i \in places : n - i \in 0..n /\ n - (n - i) = i
    OBVIOUS
  <2> QED BY <2>1
<1>2. left # {}
  BY <1>1
<1>3. PICK m \in left : \A k \in left : <<k, m>> \notin OpToRel(<, Nat)
  <2> HIDE DEF left
  <2> QED BY <1>1, <1>2, WFMin, NatLessThanWellFounded, Zenon
<1>4. ASSUME NEW k \in left PROVE m <= k
  <2>1. ~(k < m)
    BY <1>1, <1>3, Zenon DEF OpToRel
  <2> QED BY <2>1
<1>5. n - m \in places
  OBVIOUS
<1>6. ASSUME NEW j \in places PROVE j <= n - m
  <2>1. n - j \in left
    BY <1>1
  <2>2. m <= n - j
    BY <1>4, <2>1
  <2> QED BY <2>2
<1> QED BY <1>5, <1>6

LEMMA LastOfIn ==
  ASSUME NEW n \in Nat, NEW places, places \subseteq 1..n, places # {}
  PROVE  LastOf(places) \in places
BY LastPlace DEF LastOf

\* The columns of a chunk.
IsRow(row) ==
  row = [content |-> row.content, source |-> row.source, stance |-> row.stance,
         relevance |-> row.relevance, selected |-> row.selected]
SafeTable(s, table) ==
  \A id \in Idents : table[id] = Nothing \/ (IsRow(table[id]) /\ SafeTexts(s, ChunkTexts(table[id])))

LEMMA RowSafe ==
  ASSUME NEW s, NEW content, NEW source, NEW stance, NEW relevance, NEW selected,
         Safe(s, content), Safe(s, source), Safe(s, stance)
  PROVE  LET row == [content |-> content, source |-> source, stance |-> stance,
                     relevance |-> relevance, selected |-> selected]
         IN  IsRow(row) /\ SafeTexts(s, ChunkTexts(row))
BY DEF IsRow, SafeTexts, ChunkTexts

SafeTrace(s, t) ==
  /\ t = [query |-> t.query, metadata |-> t.metadata, chunks |-> t.chunks, answer |-> t.answer,
          tokens |-> t.tokens, checks |-> t.checks, events |-> t.events, report |-> t.report]
  /\ Safe(s, t.query) /\ Safe(s, t.answer) /\ SafeMetadata(s, t.metadata)
  /\ SafeTable(s, t.chunks)
  /\ \A k \in t.checks : Safe(s, k.claim)
  /\ \A e \in t.events : SafeTexts(s, EventTexts(e))

LEMMA TextsOfTraceSafe ==
  ASSUME NEW s, NEW t, SafeTrace(s, t), NEW v \in TextsOfTrace(t)
  PROVE  IsProtected(s, v)
<1>1. v # Nothing /\ t # Nothing
  BY DEF TextsOfTrace
<1> SUFFICES Safe(s, v)
  BY <1>1 DEF Safe
<1> DEFINE A == {t.query, t.answer} \cup {t.metadata[key] : key \in DOMAIN t.metadata}
           B == UNION {ChunkTexts(t.chunks[id]) : id \in Rows!LoggedIds(t.chunks)}
           C == {k.claim : k \in t.checks}
           D == UNION {EventTexts(e) : e \in t.events}
<1>2. v \in A \cup B \cup C \cup D
  BY <1>1 DEF TextsOfTrace
<1>3. CASE v \in A
  BY <1>3 DEF SafeTrace, SafeMetadata
<1>4. CASE v \in B
  BY <1>4 DEF SafeTrace, SafeTable, SafeTexts, Rows!LoggedIds
<1>5. CASE v \in C
  BY <1>5 DEF SafeTrace
<1>6. CASE v \in D
  BY <1>6 DEF SafeTrace, SafeTexts
<1> HIDE DEF A, B, C, D
<1> QED BY <1>2, <1>3, <1>4, <1>5, <1>6

\* What the settings keep out of the store is replaced by a safe text.
LEMMA LoggedSafe ==
  ASSUME NEW field \in Fields, NEW v, Safe(settings, v)
  PROVE  Safe(settings, Logged(field, v))
BY TextSafe DEF Logged

LEMMA UpsertedSafe ==
  ASSUME NEW table, SafeTable(settings, table), NEW n \in Nat, NEW chunks, DOMAIN chunks = 1..n,
         \A i \in DOMAIN chunks : SafeTexts(settings, ChunkTexts(chunks[i])), NEW selected
  PROVE  SafeTable(settings, Upserted(table, chunks, selected))
<1> DEFINE new == Upserted(table, chunks, selected)
<1> SUFFICES ASSUME NEW id \in Idents
             PROVE  new[id] = Nothing \/ (IsRow(new[id]) /\ SafeTexts(settings, ChunkTexts(new[id])))
  BY DEF SafeTable
<1> DEFINE here == Places(chunks, id)
           last == chunks[LastOf(here)]
<1>1. CASE here = {}
  <2>1. new[id] = table[id]
    BY <1>1 DEF Upserted
  <2> QED BY <2>1 DEF SafeTable
<1>2. CASE here # {}
  <2>1. here \subseteq 1..n
    BY DEF Places
  <2>2. LastOf(here) \in DOMAIN chunks
    BY <1>2, <2>1, LastOfIn
  <2>3. SafeTexts(settings, ChunkTexts(last))
    BY <2>2
  <2> DEFINE kept == selected \/ (table[id] # Nothing /\ table[id].selected)
  <2>4. new[id] = [content |-> Logged("chunk_text", last.content), source |-> last.source,
                   stance |-> last.stance, relevance |-> last.relevance, selected |-> kept]
    BY <1>2 DEF Upserted
  <2>5. Safe(settings, Logged("chunk_text", last.content))
    BY <2>3, LoggedSafe DEF SafeTexts, ChunkTexts, Fields
  <2>6. Safe(settings, last.source) /\ Safe(settings, last.stance)
    BY <2>3 DEF SafeTexts, ChunkTexts
  <2> HIDE DEF new, last, kept
  <2> QED BY <2>4, <2>5, <2>6, RowSafe
<1> QED BY <1>1, <1>2

LEMMA MarkedSafe ==
  ASSUME NEW s, NEW table, SafeTable(s, table), NEW ids
  PROVE  SafeTable(s, Rows!Marked(table, ids))
<1> SUFFICES ASSUME NEW id \in Idents
             PROVE  LET row == Rows!Marked(table, ids)[id] IN row = Nothing \/ (IsRow(row) /\ SafeTexts(s, ChunkTexts(row)))
  BY DEF SafeTable
<1>1. CASE id \in ids /\ table[id] # Nothing
  <2>1. IsRow(table[id]) /\ SafeTexts(s, ChunkTexts(table[id]))
    BY <1>1 DEF SafeTable
  <2>2. Rows!Marked(table, ids)[id]
          = [content |-> table[id].content, source |-> table[id].source, stance |-> table[id].stance,
             relevance |-> table[id].relevance, selected |-> TRUE]
    BY <1>1, <2>1 DEF Rows!Marked, IsRow
  <2> QED BY <2>1, <2>2 DEF IsRow, SafeTexts, ChunkTexts
<1>2. CASE ~(id \in ids /\ table[id] # Nothing)
  <2>1. Rows!Marked(table, ids)[id] = table[id]
    BY <1>2 DEF Rows!Marked
  <2> QED BY <2>1 DEF SafeTable
<1> QED BY <1>1, <1>2

LEMMA HandledSafe ==
  ASSUME NEW t, NEW call, SafeCall(settings, call), call.kind = "start" \/ SafeTrace(settings, t)
  PROVE  SafeTrace(settings, Handled(t, call))
<1> DEFINE s == settings
<1>1. CASE call.kind = "start"
  <2>1. Handled(t, call)
          = [query |-> call.query, metadata |-> call.metadata, chunks |-> Rows!NoChunks,
             answer |-> Nothing, tokens |-> Nothing, checks |-> {}, events |-> {}, report |-> Nothing]
    BY <1>1 DEF Handled, NoTrace
  <2>2. Safe(s, call.query) /\ SafeMetadata(s, call.metadata) /\ Safe(s, Nothing)
    BY <1>1 DEF SafeCall, Safe
  <2>3. SafeTable(s, Rows!NoChunks)
    BY DEF SafeTable, Rows!NoChunks
  <2> DEFINE new == Handled(t, call)
  <2>4. /\ new.query = call.query /\ new.metadata = call.metadata /\ new.chunks = Rows!NoChunks
        /\ new.answer = Nothing /\ new.checks = {} /\ new.events = {}
        /\ new.tokens = Nothing /\ new.report = Nothing
    BY <2>1
  <2>5. new = [query |-> new.query, metadata |-> new.metadata, chunks |-> new.chunks,
               answer |-> new.answer, tokens |-> new.tokens, checks |-> new.checks,
               events |-> new.events, report |-> new.report]
    BY <2>1, <2>4
  <2>6. SafeTrace(s, new)
    <3> HIDE DEF new
    <3> QED BY <2>2, <2>3, <2>4, <2>5 DEF SafeTrace
  <2> QED BY <2>6
<1> DEFINE new == Handled(t, call)
<1>2. CASE call.kind = "retrieval"
  <2>1. new = [t EXCEPT !.chunks = Upserted(@, call.chunks, FALSE)]
    BY <1>2 DEF Handled
  <2>2. SafeTable(s, Upserted(t.chunks, call.chunks, FALSE))
    BY <1>2, UpsertedSafe DEF SafeTrace, SafeCall
  <2> QED BY <1>2, <2>1, <2>2 DEF SafeTrace
<1>3. CASE call.kind = "context"
  <2>1. new = [t EXCEPT !.chunks = Upserted(Rows!Marked(@, call.ids), call.chunks, TRUE)]
    BY <1>3 DEF Handled
  <2>2. SafeTable(s, Rows!Marked(t.chunks, call.ids))
    BY <1>3, MarkedSafe DEF SafeTrace
  <2>3. SafeTable(s, Upserted(Rows!Marked(t.chunks, call.ids), call.chunks, TRUE))
    BY <1>3, <2>2, UpsertedSafe DEF SafeCall
  <2> QED BY <1>3, <2>1, <2>3 DEF SafeTrace
<1>4. CASE call.kind = "answer"
  <2>1. new = [t EXCEPT !.answer = Logged("answer_text", call.text), !.tokens = call.tokens]
    BY <1>4 DEF Handled
  <2>2. Safe(s, Logged("answer_text", call.text))
    BY <1>4, LoggedSafe DEF SafeCall, Fields
  <2> QED BY <1>4, <2>1, <2>2 DEF SafeTrace
<1>5. CASE call.kind = "citations"
  <2>1. new = [t EXCEPT !.checks = Rows!PendingChecks(call.citations)]
    BY <1>5 DEF Handled
  <2>2. \A k \in Rows!PendingChecks(call.citations) : Safe(s, k.claim)
    BY <1>5 DEF SafeCall, Rows!PendingChecks
  <2> QED BY <1>5, <2>1, <2>2 DEF SafeTrace
<1>6. CASE call.kind = "event"
  <2>1. new = [t EXCEPT !.events = @ \cup {call.event}]
    BY <1>6 DEF Handled
  <2>2. SafeTexts(s, EventTexts(call.event))
    BY <1>6 DEF SafeCall
  <2> QED BY <1>6, <2>1, <2>2 DEF SafeTrace
<1> QED BY <1>1, <1>2, <1>3, <1>4, <1>5, <1>6 DEF SafeCall

\* An evaluation writes no text.
LEMMA SavedSafe ==
  ASSUME NEW s, NEW p, NEW t, SafeTrace(s, t)
  PROVE  SafeTrace(s, Saved(p, t))
<1> DEFINE read == Snapshot(p, t)
           judged == [read EXCEPT !.checks = Rows!Evaluated(read.chunks, @)]
           evaluated == judged.checks
           report == Assessed(judged)
<1>1. Saved(p, t) = [t EXCEPT !.checks = Rows!WithVerdicts(@, evaluated), !.report = report]
  BY DEF Saved
<1>2. ASSUME NEW k \in Rows!WithVerdicts(t.checks, evaluated) PROVE Safe(s, k.claim)
  <2> DEFINE Of(c, e) == e.claim = c.claim /\ e.source = c.source
  <2>1. PICK c \in t.checks :
          k = IF \E e \in evaluated : Of(c, e) THEN CHOOSE e \in evaluated : Of(c, e) ELSE c
    <3> HIDE DEF evaluated
    <3> QED BY <1>2 DEF Rows!WithVerdicts
  <2>2. k.claim = c.claim
    <3> HIDE DEF evaluated
    <3> QED BY <2>1
  <2> QED BY <2>2 DEF SafeTrace
<1> HIDE DEF evaluated, report
<1> QED BY <1>1, <1>2 DEF SafeTrace

-----------------------------------------------------------------------------
(* The invariant.                                                          *)

\* Beside the checked one: a trace is in the store exactly when a local client
\* has started a session, nothing is handed on before the client is built (so
\* the settings can still change only while there is no text), and a local
\* client has no call on its way.
SafeInv ==
  /\ client = "none" => session = "new" /\ inflight = {} /\ sent = {}
  /\ client = "local" => inflight = {}
  /\ client = "local" /\ session # "new" => SafeTrace(settings, rows)
  /\ client # "local" \/ session = "new" => rows = Nothing
  /\ \A call \in inflight \cup sent : SafeCall(settings, call) \/ call.kind = "question"

LEMMA QuestionSafe ==
  /\ \A text : Sanitized(Policy, Question(text)).kind = "question"
  /\ \A call : call.kind = "question" => TextsIn(call) = {}
<1>1. \A text : Sanitized(Policy, Question(text)) = Question(text) /\ Question(text).kind = "question"
  BY DEF Sanitized, Question
<1>2. \A call : call.kind = "question" => TextsIn(call) = {}
  BY DEF TextsIn
<1> QED BY <1>1, <1>2

\* What a dispatched call leaves, if the policy makes it safe.
LEMMA DispatchSafe ==
  ASSUME SafeInv, NEW call, Dispatch(call), UNCHANGED <<settings, client>>,
         \/ /\ SafeCall(settings, Sanitized(Policy, call))
            /\ client = "local" /\ session = "new" => Sanitized(Policy, call).kind = "start"
         \/ client # "local" /\ Sanitized(Policy, call).kind = "question",
         client \in {"local", "hosted"}, client = "local" => session' # "new"
  PROVE  SafeInv'
<1>1. CASE client = "local"
  <2>1. rows' = Handled(rows, Sanitized(Policy, call)) /\ UNCHANGED <<inflight, sent>>
    BY <1>1 DEF Dispatch, KeepLocally
  <2>2. SafeTrace(settings, rows')
    BY <1>1, <2>1, HandledSafe DEF SafeInv
  <2> QED BY <1>1, <2>1, <2>2 DEF SafeInv
<1>2. CASE client # "local" /\ api = "sync"
  <2>1. sent' = sent \cup {Sanitized(Policy, call)} /\ UNCHANGED <<rows, inflight>>
    BY <1>2 DEF Dispatch, SendToHost
  <2> QED BY <1>2, <2>1 DEF SafeInv
<1>3. CASE client # "local" /\ api # "sync"
  <2>1. inflight' = inflight \cup {Sanitized(Policy, call)} /\ UNCHANGED <<rows, sent>>
    BY <1>3 DEF Dispatch, AsyncSend
  <2> QED BY <1>3, <2>1 DEF SafeInv
<1> QED BY <1>1, <1>2, <1>3

LEMMA LogCallSafe ==
  ASSUME SafeInv, NEW call, LogCall(call), SafeCall(settings, Sanitized(Policy, call))
  PROVE  SafeInv'
<1>1. Dispatch(call) /\ UNCHANGED <<settings, client, session>> /\ session = "open"
  BY DEF LogCall
<1>2. CASE client \in {"local", "hosted"}
  BY <1>1, <1>2, DispatchSafe
<1>3. CASE client \notin {"local", "hosted"}
  <2>1. UNCHANGED rows /\ (inflight' \cup sent') \subseteq inflight \cup sent \cup {Sanitized(Policy, call)}
    BY <1>1, <1>3 DEF Dispatch, SendToHost, AsyncSend
  <2>2. client # "none"
    BY <1>1 DEF SafeInv
  <2> QED BY <1>1, <1>3, <2>1, <2>2 DEF SafeInv
<1> QED BY <1>2, <1>3

LEMMA SafeStep ==
  ASSUME SafeInv, [SessionNext]_sessionVars
  PROVE  SafeInv'
<1>1. CASE InitProject
  BY <1>1 DEF InitProject, SafeInv
<1>2. CASE Build
  BY <1>2 DEF Build, SafeInv
<1>3. CASE Start
  <2>1. PICK t \in Traces : Dispatch([kind |-> "start", query |-> t.query, metadata |-> t.metadata])
    BY <1>3 DEF Start
  <2> DEFINE call == [kind |-> "start", query |-> t.query, metadata |-> t.metadata]
  <2>2. SafeCall(settings, Sanitized(Policy, call)) /\ Sanitized(Policy, call).kind = "start"
    BY StartSafe DEF Policy, Sanitized
  <2>3. UNCHANGED <<settings, client>> /\ client \in {"local", "hosted"}
        /\ (client = "local" => session' # "new")
    BY <1>3 DEF Start
  <2>4. Dispatch(call)
    BY <2>1
  <2> HIDE DEF call
  <2> QED BY <2>2, <2>3, <2>4, DispatchSafe
<1>4. CASE Arrive
  <2>1. PICK call \in inflight : inflight' = inflight \ {call} /\ sent' = sent \cup {call}
                                 /\ UNCHANGED <<settings, client, rows>>
    BY <1>4 DEF Arrive
  <2> QED BY <2>1 DEF SafeInv
<1>5. CASE LogRetrieval
  <2>1. PICK chunks \in ChunkLists : LogCall([kind |-> "retrieval", chunks |-> chunks, ids |-> {}])
    BY <1>5 DEF LogRetrieval
  <2> QED BY <2>1, ChunksSafe, LogCallSafe, InputsAssumption DEF Policy
<1>6. CASE LogContext
  <2>1. PICK chunks \in ChunkLists, ids \in NameSets :
            LogCall([kind |-> "context", chunks |-> chunks, ids |-> ids])
    BY <1>6 DEF LogContext
  <2> QED BY <2>1, ChunksSafe, LogCallSafe, InputsAssumption DEF Policy
<1>7. CASE LogAnswer
  <2>1. PICK reply \in Replies : LogCall([kind |-> "answer", text |-> reply.text, tokens |-> reply.tokens])
    BY <1>7 DEF LogAnswer
  <2> QED BY <2>1, AnswerSafe, LogCallSafe DEF Policy
<1>8. CASE LogCitations
  <2>1. PICK citations \in CitationSets : LogCall([kind |-> "citations", citations |-> citations])
    BY <1>8 DEF LogCitations
  <2> QED BY <2>1, CitationsSafe, LogCallSafe DEF Policy
<1>9. CASE LogAgentEvent
  <2>1. PICK event \in AgentEvents : LogCall(EventCall(event))
    BY <1>9 DEF LogAgentEvent
  <2> QED BY <2>1, EventSafe, LogCallSafe DEF Policy
<1>10. CASE Evaluate
  <2>1. rows' = Saved(Policy, rows) /\ client = "local" /\ session = "open"
        /\ UNCHANGED <<settings, client, session, inflight, sent>>
    BY <1>10 DEF Evaluate
  <2>2. SafeTrace(settings, rows')
    BY <2>1, SavedSafe DEF SafeInv
  <2> QED BY <2>1, <2>2 DEF SafeInv
<1>11. CASE AskHost
  <2>1. PICK text \in Texts : Dispatch(Question(text))
    BY <1>11 DEF AskHost
  <2>2. client = "hosted" /\ UNCHANGED <<settings, client>>
    BY <1>11 DEF AskHost
  <2> QED BY <2>1, <2>2, QuestionSafe, DispatchSafe
<1>12. CASE UNCHANGED sessionVars
  BY <1>12 DEF sessionVars, SafeInv
<1> QED
  BY <1>1, <1>2, <1>3, <1>4, <1>5, <1>6, <1>7, <1>8, <1>9, <1>10, <1>11, <1>12 DEF SessionNext

LEMMA SafeInvProtects == SafeInv => TextsAreProtected
<1> SUFFICES ASSUME SafeInv PROVE TextsAreProtected
  OBVIOUS
<1>1. rows # Nothing => SafeTrace(settings, rows)
  BY DEF SafeInv
<1>2. ASSUME NEW v \in TextsOfTrace(rows) PROVE IsProtected(settings, v)
  <2>1. rows # Nothing
    BY DEF TextsOfTrace
  <2> QED BY <1>1, <2>1, TextsOfTraceSafe
<1>3. ASSUME NEW call \in inflight \cup sent, NEW v \in TextsIn(call) PROVE IsProtected(settings, v)
  BY QuestionSafe, TextsInSafe DEF SafeInv
<1>4. rows # Nothing /\ HidesMetadata(settings) =>
        \A key \in DOMAIN rows.metadata : rows.metadata[key] = Nothing
  BY <1>1 DEF SafeTrace, SafeMetadata
<1> QED BY <1>2, <1>3, <1>4 DEF TextsAreProtected, TextsKept

\* Under every setting, whatever a session logs and in whatever order, on either
\* client: every text that it leaves in the store, has on its way or has sent
\* is protected as the settings ask.
THEOREM TextsStayProtected == SessionSpec => []TextsAreProtected
<1>1. SessionInit => SafeInv
  BY DEF SessionInit, SafeInv
<1> QED
  BY <1>1, SafeStep, SafeInvProtects, PTL DEF SessionSpec

-----------------------------------------------------------------------------
(* The edges between chunks, selections and citations.                     *)

\* A policy maps distinct names to distinct identifiers.
LEMMA IdentifiersApart ==
  ASSUME NEW p, NEW name \in Names
  PROVE  /\ ProtectIdentifier(p, name) \in Idents /\ ProtectIdentifier(p, name) # Nothing
         /\ name # Nothing
         /\ \A other \in Names : ProtectIdentifier(p, other) = ProtectIdentifier(p, name) => other = name
         /\ \A other \in Names : ProtectIdentifier(p, name) = Plain(other) => other = name
<1> DEFINE Ident(x) == [form |-> IF p.profile = "strict" THEN "id" ELSE "plain", of |-> x]
<1>1. \A x \in Names : x # Nothing /\ ProtectIdentifier(p, x) = Ident(x)
  BY NothingApart DEF ProtectIdentifier, Value
<1>2. \A x \in Names : Ident(x) \in Idents /\ Ident(x).of = x
  BY DEF Idents
<1>3. \A x \in Names : Plain(x).of = x
  BY DEF Plain, Value
<1> HIDE DEF Ident
<1> QED BY <1>1, <1>2, <1>3, NothingApart

\* What a policy makes of a text is a value.
LEMMA TextTyped ==
  ASSUME NEW p, NEW text \in Texts, NEW field \in Fields
  PROVE  ProtectText(p, field, text) \in Values /\ Marker(field) \in Values
<1> DEFINE shown == IF p.profile = "strict" THEN Marker(field)
                    ELSE IF p.patterns /\ text \in Matched THEN Value("masked", text)
                    ELSE Plain(text)
<1>1. Marker(field) \in Readable
  BY DEF Marker, Value, Readable
<1>2. shown \in Readable
  BY <1>1 DEF Plain, Value, Readable
<1>3. [form |-> "hash", of |-> text] \in Readable
  BY DEF Readable
<1>4. [form |-> "enc", of |-> shown] \in [form : {"enc"}, of : Readable]
  BY <1>2
<1>5. text # Nothing
  BY NothingApart
<1>6. ProtectText(p, field, text)
        = IF p.hashOnly THEN [form |-> "hash", of |-> text]
          ELSE IF p.cipher THEN [form |-> "enc", of |-> shown] ELSE shown
  BY <1>5 DEF ProtectText, Value
<1> HIDE DEF shown
<1> QED BY <1>1, <1>2, <1>3, <1>4, <1>6 DEF Values

LEMMA ChunkTyped ==
  ASSUME NEW p, NEW item \in ChunkItem
  PROVE  LET chunk == SafeChunk(p, item)
         IN  /\ chunk.name = ProtectIdentifier(p, item.name) /\ chunk.content \in Values
             /\ chunk.source \in Values \cup {Nothing} /\ chunk.stance \in Values \cup {Nothing}
             /\ chunk.relevance \in 1..1000 \cup {Nothing}
<1> DEFINE chunk == SafeChunk(p, item)
<1>1. /\ item.content \in Texts /\ item.source \in Texts \cup {Nothing}
      /\ item.stance \in Texts \cup {Nothing} /\ item.relevance \in 1..1000 \cup {Nothing}
  BY DEF ChunkItem, TextOrNothing
<1>2. \A text \in Texts \cup {Nothing}, field \in Fields : ProtectText(p, field, text) \in Values \cup {Nothing}
  BY TextTyped DEF ProtectText
<1>3. chunk.content \in Values
  BY <1>1, TextTyped DEF SafeChunk, Fields
<1>4. chunk.source \in Values \cup {Nothing}
  BY <1>1, <1>2 DEF SafeChunk, Fields
<1>5. chunk.stance \in Values \cup {Nothing}
  <2>1. chunk.stance = ProtectMetadata(p, [stance |-> item.stance]).stance
    BY DEF SafeChunk
  <2>2. chunk.stance = Nothing \/ chunk.stance = ProtectText(p, "metadata", item.stance)
    BY <2>1 DEF ProtectMetadata
  <2> QED BY <1>1, <1>2, <2>2 DEF Fields
<1>6. chunk.relevance = item.relevance /\ chunk.name = ProtectIdentifier(p, item.name)
  BY DEF SafeChunk
<1> QED BY <1>1, <1>3, <1>4, <1>5, <1>6

Made == {Unnamed[i] : i \in DOMAIN Unnamed}
TypedTable(table) == \A id \in Idents : table[id] \in ChunkRow \cup {Nothing}

\* What upsert_chunks does to the row of a name that is not one of its own.
LEMMA UpsertedEdges ==
  ASSUME NEW p, NEW table, TypedTable(table), NEW items \in ChunkLists, NEW selected \in BOOLEAN
  PROVE  LET chunks == SafeChunks(p, items)
             new == Upserted(table, chunks, selected)
         IN  /\ TypedTable(new)
             /\ \A id \in Idents : Places(chunks, id) # {} => new[id] \in ChunkRow
             /\ \A name \in Names \ Made :
                   LET id == ProtectIdentifier(p, name)
                   IN  IF name \in NamesIn(items)
                       THEN /\ new[id] # Nothing
                            /\ new[id].selected <=> selected \/ (table[id] # Nothing /\ table[id].selected)
                       ELSE new[id] = table[id]
<1> DEFINE chunks == SafeChunks(p, items)
           new == Upserted(table, chunks, selected)
           here(id) == Places(chunks, id)
           last(id) == chunks[LastOf(here(id))]
           kept(id) == selected \/ (table[id] # Nothing /\ table[id].selected)
           row(id) == [content |-> Logged("chunk_text", last(id).content),
                       source |-> last(id).source, stance |-> last(id).stance,
                       relevance |-> last(id).relevance, selected |-> kept(id)]
<1>1. /\ items \in Seq(ChunkItem) /\ DOMAIN items = 1..Len(items) /\ Len(items) \in Nat
      /\ DOMAIN items \subseteq DOMAIN Unnamed /\ \A i \in DOMAIN items : items[i] \in ChunkItem
  <2>1. items \in Seq(ChunkItem) /\ Len(items) <= Len(Unnamed) /\ Unnamed \in Seq(Names)
    BY InputsAssumption
  <2>2. Len(items) \in Nat /\ Len(Unnamed) \in Nat /\ DOMAIN items = 1..Len(items)
        /\ DOMAIN Unnamed = 1..Len(Unnamed)
    BY <2>1
  <2> QED BY <2>1, <2>2
<1>2. DOMAIN chunks = DOMAIN items /\ \A i \in DOMAIN items : chunks[i] = SafeChunk(p, items[i])
  BY DEF SafeChunks
<1>3. \A id \in Idents : new[id] = IF here(id) = {} THEN table[id] ELSE row(id)
  BY DEF Upserted
<1>4. ASSUME NEW id \in Idents, here(id) # {} PROVE row(id) \in ChunkRow
  <2>1. here(id) \subseteq 1..Len(items)
    BY <1>1, <1>2 DEF Places
  <2>2. LastOf(here(id)) \in DOMAIN items
    BY <1>1, <1>4, <2>1, LastOfIn
  <2>3. PICK item \in ChunkItem : last(id) = SafeChunk(p, item)
    BY <1>1, <1>2, <2>2
  <2> HIDE DEF last
  <2>4. /\ last(id).content \in Values /\ last(id).source \in Values \cup {Nothing}
        /\ last(id).stance \in Values \cup {Nothing} /\ last(id).relevance \in 1..1000 \cup {Nothing}
    BY <2>3, ChunkTyped
  <2>5. "chunk_text" \in Fields
    BY DEF Fields
  <2>6. Logged("chunk_text", last(id).content) \in Values
    <3>1. PICK text \in Texts : TRUE
      BY <1>1, <1>4 DEF ChunkItem
    <3>2. Marker("chunk_text") \in Values
      BY <2>5, <3>1, TextTyped
    <3> QED BY <2>4, <3>2 DEF Logged
  <2>7. kept(id) \in BOOLEAN
    BY DEF TypedTable, ChunkRow
  <2> HIDE DEF kept
  <2> QED BY <2>4, <2>6, <2>7 DEF ChunkRow
<1>5. TypedTable(new)
  <2> HIDE DEF new, row, here
  <2> QED BY <1>3, <1>4 DEF TypedTable
<1>6. ASSUME NEW name \in Names \ Made
      PROVE  here(ProtectIdentifier(p, name)) # {} <=> name \in NamesIn(items)
  <2>1. ASSUME NEW i \in DOMAIN items
        PROVE  IdentOf(chunks, i) = ProtectIdentifier(p, name) <=> items[i].name = name
    <3>1. items[i].name \in Names \cup {Nothing} /\ chunks[i].name = ProtectIdentifier(p, items[i].name)
      BY <1>1, <1>2, ChunkTyped DEF ChunkItem
    <3>2. CASE items[i].name = Nothing
      <4>1. chunks[i].name = Nothing
        BY <3>1, <3>2 DEF ProtectIdentifier
      <4>2. IdentOf(chunks, i) = Plain(Unnamed[i]) /\ Unnamed[i] \in Names /\ Unnamed[i] # name
        BY <1>1, <4>1, InputsAssumption DEF IdentOf, Made
      <4> QED BY <3>2, <4>2, IdentifiersApart
    <3>3. CASE items[i].name \in Names
      <4>1. IdentOf(chunks, i) = ProtectIdentifier(p, items[i].name)
        BY <3>1, <3>3, IdentifiersApart DEF IdentOf
      <4> QED BY <3>3, <4>1, IdentifiersApart
    <3> QED BY <3>1, <3>2, <3>3
  <2>2. name # Nothing /\ DOMAIN chunks = DOMAIN items
    BY <1>2, IdentifiersApart
  <2> HIDE DEF chunks
  <2> QED BY <2>1, <2>2 DEF NamesIn, Places
<1>7. ASSUME NEW name \in Names \ Made
      PROVE  LET id == ProtectIdentifier(p, name)
             IN  IF name \in NamesIn(items) THEN new[id] # Nothing /\ (new[id].selected <=> kept(id))
                 ELSE new[id] = table[id]
  <2>1. ProtectIdentifier(p, name) \in Idents
    BY IdentifiersApart
  <2>2. \A id \in Idents : here(id) # {} => row(id) # Nothing /\ (row(id).selected <=> kept(id))
    <3>1. \A id : row(id).selected = kept(id)
      OBVIOUS
    <3> HIDE DEF row, here, kept
    <3> QED BY <1>4, <3>1, NothingApart
  <2> HIDE DEF row, here, kept, new
  <2> QED BY <1>3, <1>6, <2>1, <2>2
<1>8. \A id \in Idents : here(id) # {} => new[id] \in ChunkRow
  <2> HIDE DEF new, row, here
  <2> QED BY <1>3, <1>4
<1> QED BY <1>5, <1>7, <1>8

\* mark_context, for ids that the policy has passed.
LEMMA MarkedEdges ==
  ASSUME NEW p, NEW table, TypedTable(table), NEW names \in SUBSET Names
  PROVE  LET new == Rows!Marked(table, {ProtectIdentifier(p, name) : name \in names})
         IN  /\ TypedTable(new)
             /\ \A name \in Names :
                   LET id == ProtectIdentifier(p, name)
                   IN  /\ new[id] # Nothing <=> table[id] # Nothing
                       /\ table[id] # Nothing => (new[id].selected <=> name \in names \/ table[id].selected)
<1> DEFINE ids == {ProtectIdentifier(p, name) : name \in names}
           new == Rows!Marked(table, ids)
<1>1. ASSUME NEW id \in Idents
      PROVE  /\ new[id] \in ChunkRow \cup {Nothing}
             /\ new[id] # Nothing <=> table[id] # Nothing
             /\ table[id] # Nothing => (new[id].selected <=> id \in ids \/ table[id].selected)
  <2> HIDE DEF ids
  <2>1. CASE id \in ids /\ table[id] # Nothing
    <3>1. table[id] \in ChunkRow
      BY <2>1 DEF TypedTable
    <3>2. new[id] = [table[id] EXCEPT !.selected = TRUE]
      BY <2>1 DEF Rows!Marked
    <3>3. new[id] \in ChunkRow /\ new[id].selected = TRUE
      <4> DEFINE row == table[id]
      <4>1. /\ row.content \in Values /\ row.source \in Values \cup {Nothing}
            /\ row.stance \in Values \cup {Nothing} /\ row.relevance \in 1..1000 \cup {Nothing}
            /\ row = [content |-> row.content, source |-> row.source, stance |-> row.stance,
                      relevance |-> row.relevance, selected |-> row.selected]
        BY <3>1 DEF ChunkRow
      <4>2. new[id] = [content |-> row.content, source |-> row.source, stance |-> row.stance,
                       relevance |-> row.relevance, selected |-> TRUE]
        BY <3>2, <4>1
      <4> HIDE DEF new, row
      <4> QED BY <4>1, <4>2 DEF ChunkRow
    <3> HIDE DEF new
    <3> QED BY <2>1, <3>3, NothingApart
  <2>2. CASE ~(id \in ids /\ table[id] # Nothing)
    <3>1. new[id] = table[id]
      BY <2>2 DEF Rows!Marked
    <3> HIDE DEF new
    <3> QED BY <2>2, <3>1 DEF TypedTable
  <2> QED BY <2>1, <2>2
<1>2. \A name \in Names : ProtectIdentifier(p, name) \in Idents
                          /\ (ProtectIdentifier(p, name) \in ids <=> name \in names)
  BY IdentifiersApart
<1> HIDE DEF new, ids
<1>3. TypedTable(new)
  BY <1>1 DEF TypedTable
<1>4. \A name \in Names :
         LET id == ProtectIdentifier(p, name)
         IN  /\ new[id] # Nothing <=> table[id] # Nothing
             /\ table[id] # Nothing => (new[id].selected <=> name \in names \/ table[id].selected)
  BY <1>1, <1>2
<1> QED BY <1>3, <1>4 DEF new, ids

LEMMA MarkedTyped ==
  ASSUME NEW table, TypedTable(table), NEW ids, NEW id \in Idents, table[id] # Nothing
  PROVE  Rows!Marked(table, ids)[id] # Nothing
<1> DEFINE new == Rows!Marked(table, ids)
<1>1. table[id] \in ChunkRow
  BY DEF TypedTable
<1>2. CASE id \in ids
  <2> DEFINE row == table[id]
  <2>1. new[id] = [row EXCEPT !.selected = TRUE]
    BY <1>2 DEF Rows!Marked
  <2>2. /\ row.content \in Values /\ row.source \in Values \cup {Nothing}
        /\ row.stance \in Values \cup {Nothing} /\ row.relevance \in 1..1000 \cup {Nothing}
        /\ row = [content |-> row.content, source |-> row.source, stance |-> row.stance,
                  relevance |-> row.relevance, selected |-> row.selected]
    BY <1>1 DEF ChunkRow
  <2>3. new[id] \in ChunkRow
    <3> HIDE DEF new, row
    <3>1. new[id] = [content |-> row.content, source |-> row.source, stance |-> row.stance,
                     relevance |-> row.relevance, selected |-> TRUE]
      BY <2>1, <2>2
    <3> QED BY <2>2, <3>1 DEF ChunkRow
  <2> QED BY <2>3, NothingApart
<1>3. CASE id \notin ids
  BY <1>3 DEF Rows!Marked
<1> QED BY <1>2, <1>3

\* An evaluation leaves the checks with their sources.
LEMMA SourcesStay ==
  ASSUME NEW checks, NEW evaluated
  PROVE  {k.source : k \in Rows!WithVerdicts(checks, evaluated)} = {k.source : k \in checks}
<1> DEFINE Of(c, e) == e.claim = c.claim /\ e.source = c.source
           Judged(c) == IF \E e \in evaluated : Of(c, e) THEN CHOOSE e \in evaluated : Of(c, e) ELSE c
<1>1. Rows!WithVerdicts(checks, evaluated) = {Judged(c) : c \in checks}
  BY DEF Rows!WithVerdicts
<1>2. \A c \in checks : Judged(c).source = c.source
  <2> SUFFICES ASSUME NEW c \in checks PROVE Judged(c).source = c.source
    OBVIOUS
  <2>1. CASE \E e \in evaluated : Of(c, e)
    <3>1. Of(c, Judged(c))
      BY <2>1
    <3> QED BY <3>1
  <2>2. CASE ~\E e \in evaluated : Of(c, e)
    BY <2>2
  <2> QED BY <2>1, <2>2
<1> HIDE DEF Judged
<1> QED BY <1>1, <1>2

-----------------------------------------------------------------------------
\* The edges of a trace, against what its session has named, chosen and cited.
Edges(p, t, names, selected, citations) ==
  /\ TypedTable(t.chunks) /\ selected \subseteq names
  /\ \A name \in Names \ Made :
        LET row == t.chunks[ProtectIdentifier(p, name)]
        IN  (row # Nothing <=> name \in names) /\ (name \in names => (row.selected <=> name \in selected))
  /\ {k.source : k \in t.checks} = {ProtectIdentifier(p, k.source) : k \in citations}

\* Beside that, a session that has not started has named nothing.
EdgesInv ==
  /\ SafeInv
  /\ session = "new" => named = {} /\ chosen = {} /\ cited = {}
  /\ client = "local" /\ session # "new" => Edges(Policy, rows, named, chosen, cited)

LEMMA RetrievalEdges ==
  ASSUME NEW p, NEW t, NEW names, NEW selected, NEW citations, SafeTrace(settings, t),
         Edges(p, t, names, selected, citations), NEW items \in ChunkLists
  PROVE  Edges(p, Handled(t, Sanitized(p, [kind |-> "retrieval", chunks |-> items, ids |-> {}])),
               names \cup NamesIn(items), selected, citations)
<1> DEFINE call == [kind |-> "retrieval", chunks |-> items, ids |-> {}]
           chunks == SafeChunks(p, items)
           new == Upserted(t.chunks, chunks, FALSE)
           after == Handled(t, Sanitized(p, call))
<1>1. after = [t EXCEPT !.chunks = new]
  BY DEF Sanitized, Handled
<1>2. after.chunks = new /\ after.checks = t.checks
  <2> HIDE DEF new, after
  <2> QED BY <1>1 DEF SafeTrace
<1>3. /\ TypedTable(new)
      /\ \A name \in Names \ Made :
            LET id == ProtectIdentifier(p, name)
            IN  IF name \in NamesIn(items)
                THEN new[id] # Nothing /\ (new[id].selected <=> (t.chunks[id] # Nothing /\ t.chunks[id].selected))
                ELSE new[id] = t.chunks[id]
  BY UpsertedEdges DEF Edges
<1>4. Edges(p, after, names \cup NamesIn(items), selected, citations)
  <2> HIDE DEF new, after
  <2> QED BY <1>2, <1>3 DEF Edges
<1> QED BY <1>4

LEMMA ContextEdges ==
  ASSUME NEW p, NEW t, NEW names, NEW selected, NEW citations, SafeTrace(settings, t),
         Edges(p, t, names, selected, citations), NEW items \in ChunkLists, NEW ids \in NameSets
  PROVE  Edges(p, Handled(t, Sanitized(p, [kind |-> "context", chunks |-> items, ids |-> ids])),
               names \cup NamesIn(items), selected \cup (ids \cap names) \cup NamesIn(items), citations)
<1> DEFINE call == [kind |-> "context", chunks |-> items, ids |-> ids]
           chunks == SafeChunks(p, items)
           marked == Rows!Marked(t.chunks, {ProtectIdentifier(p, name) : name \in ids})
           new == Upserted(marked, chunks, TRUE)
           after == Handled(t, Sanitized(p, call))
<1>1. after = [t EXCEPT !.chunks = new]
  BY DEF Sanitized, Handled
<1>2. after.chunks = new /\ after.checks = t.checks
  <2> HIDE DEF new, after
  <2> QED BY <1>1 DEF SafeTrace
<1>3. ids \subseteq Names
  BY InputsAssumption
<1>4. /\ TypedTable(marked)
      /\ \A name \in Names :
            LET id == ProtectIdentifier(p, name)
            IN  /\ marked[id] # Nothing <=> t.chunks[id] # Nothing
                /\ t.chunks[id] # Nothing => (marked[id].selected <=> name \in ids \/ t.chunks[id].selected)
  BY <1>3, MarkedEdges DEF Edges
<1>5. /\ TypedTable(new)
      /\ \A name \in Names \ Made :
            LET id == ProtectIdentifier(p, name)
            IN  IF name \in NamesIn(items) THEN new[id] # Nothing /\ new[id].selected
                ELSE new[id] = marked[id]
  <2> HIDE DEF marked
  <2> QED BY <1>4, UpsertedEdges
<1>6. Edges(p, after, names \cup NamesIn(items), selected \cup (ids \cap names) \cup NamesIn(items), citations)
  <2> HIDE DEF marked, new, after
  <2> QED BY <1>2, <1>4, <1>5 DEF Edges
<1> QED BY <1>6

LEMMA CitationEdges ==
  ASSUME NEW p, NEW t, NEW names, NEW selected, NEW old, SafeTrace(settings, t),
         Edges(p, t, names, selected, old), NEW citations
  PROVE  Edges(p, Handled(t, Sanitized(p, [kind |-> "citations", citations |-> citations])),
               names, selected, citations)
<1> DEFINE call == [kind |-> "citations", citations |-> citations]
           new == Rows!PendingChecks({SafeCitation(p, k) : k \in citations})
           after == Handled(t, Sanitized(p, call))
<1>1. after = [t EXCEPT !.checks = new]
  BY DEF Sanitized, Handled
<1>2. after.chunks = t.chunks /\ after.checks = new
  <2> HIDE DEF new, after
  <2> QED BY <1>1 DEF SafeTrace
<1>3. {k.source : k \in new} = {ProtectIdentifier(p, k.source) : k \in citations}
  <2> DEFINE Pending(k) == [claim |-> SafeCitation(p, k).claim, source |-> SafeCitation(p, k).source,
                            status |-> "pending"]
  <2>1. new = {Pending(k) : k \in citations}
    BY DEF Rows!PendingChecks
  <2>2. \A k : Pending(k).source = ProtectIdentifier(p, k.source)
    BY DEF SafeCitation
  <2> HIDE DEF new, Pending
  <2> QED BY <2>1, <2>2
<1>4. Edges(p, after, names, selected, citations)
  <2> HIDE DEF new, after
  <2> QED BY <1>2, <1>3 DEF Edges
<1> QED BY <1>4

LEMMA StartEdges ==
  ASSUME NEW p, NEW t, NEW query, NEW metadata
  PROVE  Edges(p, Handled(t, Sanitized(p, [kind |-> "start", query |-> query, metadata |-> metadata])),
               {}, {}, {})
<1> DEFINE after == Handled(t, Sanitized(p, [kind |-> "start", query |-> query, metadata |-> metadata]))
<1>1. after = [NoTrace EXCEPT !.query = ProtectText(p, "query", query),
                              !.metadata = ProtectMetadata(p, metadata)]
  BY DEF Sanitized, Handled
<1>2. after.chunks = Rows!NoChunks /\ after.checks = {}
  <2> HIDE DEF after
  <2> QED BY <1>1 DEF NoTrace
<1>3. \A id \in Idents : Rows!NoChunks[id] = Nothing
  BY DEF Rows!NoChunks
<1>4. \A name \in Names : ProtectIdentifier(p, name) \in Idents
  BY IdentifiersApart
<1>5. Edges(p, after, {}, {}, {})
  <2> HIDE DEF after
  <2> QED BY <1>2, <1>3, <1>4 DEF Edges, TypedTable
<1> QED BY <1>5

\* Calls that write neither chunks nor checks.
LEMMA OtherEdges ==
  ASSUME NEW p, NEW t, NEW names, NEW selected, NEW citations, SafeTrace(settings, t),
         Edges(p, t, names, selected, citations),
         NEW call, Sanitized(p, call).kind \in {"answer", "event"}
  PROVE  Edges(p, Handled(t, Sanitized(p, call)), names, selected, citations)
<1> DEFINE safe == Sanitized(p, call)
           after == Handled(t, safe)
<1>1. after = [t EXCEPT !.answer = Logged("answer_text", safe.text), !.tokens = safe.tokens]
      \/ after = [t EXCEPT !.events = @ \cup {safe.event}]
  <2> HIDE DEF safe
  <2> QED BY DEF Handled, safe
<1>2. after.chunks = t.chunks /\ after.checks = t.checks
  <2> HIDE DEF after, safe
  <2> QED BY <1>1 DEF SafeTrace
<1>3. Edges(p, after, names, selected, citations)
  <2> HIDE DEF after
  <2> QED BY <1>2 DEF Edges
<1> QED BY <1>3

LEMMA SavedEdges ==
  ASSUME NEW p, NEW t, NEW names, NEW selected, NEW citations, SafeTrace(settings, t),
         Edges(p, t, names, selected, citations)
  PROVE  Edges(p, Saved(p, t), names, selected, citations)
<1> DEFINE read == Snapshot(p, t)
           judged == [read EXCEPT !.checks = Rows!Evaluated(read.chunks, @)]
           evaluated == judged.checks
           report == Assessed(judged)
           after == Saved(p, t)
<1>1. after = [t EXCEPT !.checks = Rows!WithVerdicts(@, evaluated), !.report = report]
  BY DEF Saved
<1>2. after.chunks = t.chunks /\ after.checks = Rows!WithVerdicts(t.checks, evaluated)
  <2> HIDE DEF after, evaluated, report
  <2> QED BY <1>1 DEF SafeTrace
<1>3. Edges(p, after, names, selected, citations)
  <2> HIDE DEF after, evaluated
  <2> QED BY <1>2, SourcesStay DEF Edges
<1> QED BY <1>3

\* A call of an open session: on the local client the trace takes it.
LEMMA LogCallKept ==
  ASSUME NEW call, LogCall(call)
  PROVE  /\ UNCHANGED <<settings, client, session>> /\ session = "open"
         /\ client = "local" => rows' = Handled(rows, Sanitized(Policy, call))
BY DEF LogCall, Dispatch, KeepLocally

LEMMA EdgesStep ==
  ASSUME EdgesInv, [SessionNext]_sessionVars
  PROVE  EdgesInv'
<1>1. SafeInv'
  BY SafeStep DEF EdgesInv
<1>2. SafeInv /\ (client = "local" /\ session # "new" => SafeTrace(settings, rows))
  BY DEF EdgesInv, SafeInv
<1>3. UNCHANGED settings => Policy' = Policy
  BY DEF Policy
<1>4. CASE InitProject
  BY <1>1, <1>2, <1>4 DEF InitProject, EdgesInv, SafeInv
<1>5. CASE Build
  BY <1>1, <1>2, <1>5 DEF Build, EdgesInv, SafeInv
<1>6. CASE Start
  <2>1. PICK t \in Traces : Dispatch([kind |-> "start", query |-> t.query, metadata |-> t.metadata])
    BY <1>6 DEF Start
  <2>2. /\ session = "new" /\ UNCHANGED <<settings, client, named, chosen, cited>> /\ session' # "new"
        /\ named = {} /\ chosen = {} /\ cited = {}
    BY <1>6 DEF Start, EdgesInv
  <2>3. client = "local" => Edges(Policy, rows', {}, {}, {})
    BY <2>1, StartEdges DEF Dispatch, KeepLocally
  <2> QED BY <1>1, <1>3, <2>2, <2>3 DEF EdgesInv
<1>7. CASE Arrive
  <2>1. client # "local" /\ UNCHANGED <<client, named, chosen, cited>>
        /\ (session' = "new" => session = "new")
    BY <1>2, <1>7 DEF Arrive, SafeInv
  <2> QED BY <1>1, <2>1 DEF EdgesInv
<1>8. CASE LogRetrieval
  <2>1. PICK items \in ChunkLists :
            /\ LogCall([kind |-> "retrieval", chunks |-> items, ids |-> {}])
            /\ named' = named \cup NamesIn(items) /\ UNCHANGED <<chosen, cited>>
    BY <1>8 DEF LogRetrieval
  <2>2. UNCHANGED <<settings, client, session>> /\ session = "open"
    BY <2>1, LogCallKept
  <2>3. client = "local" => Edges(Policy, rows', named', chosen, cited)
    BY <1>2, <2>1, <2>2, LogCallKept, RetrievalEdges DEF EdgesInv
  <2> QED BY <1>1, <1>3, <2>1, <2>2, <2>3 DEF EdgesInv
<1>9. CASE LogContext
  <2>1. PICK items \in ChunkLists, ids \in NameSets :
            /\ LogCall([kind |-> "context", chunks |-> items, ids |-> ids])
            /\ named' = named \cup NamesIn(items)
            /\ chosen' = chosen \cup (ids \cap named) \cup NamesIn(items) /\ UNCHANGED cited
    BY <1>9 DEF LogContext
  <2>2. UNCHANGED <<settings, client, session>> /\ session = "open"
    BY <2>1, LogCallKept
  <2>3. client = "local" => Edges(Policy, rows', named', chosen', cited)
    BY <1>2, <2>1, <2>2, LogCallKept, ContextEdges DEF EdgesInv
  <2> QED BY <1>1, <1>3, <2>1, <2>2, <2>3 DEF EdgesInv
<1>10. CASE LogAnswer
  <2>1. PICK reply \in Replies : LogCall([kind |-> "answer", text |-> reply.text, tokens |-> reply.tokens])
    BY <1>10 DEF LogAnswer
  <2> DEFINE call == [kind |-> "answer", text |-> reply.text, tokens |-> reply.tokens]
  <2>2. LogCall(call) /\ UNCHANGED <<named, chosen, cited>>
    BY <1>10, <2>1 DEF LogAnswer
  <2>3. Sanitized(Policy, call).kind = "answer"
    BY DEF Sanitized
  <2> HIDE DEF call
  <2>4. UNCHANGED <<settings, client, session>> /\ session = "open"
    BY <2>2, LogCallKept
  <2>5. client = "local" => Edges(Policy, rows', named, chosen, cited)
    BY <1>2, <2>2, <2>3, <2>4, LogCallKept, OtherEdges DEF EdgesInv
  <2> QED BY <1>1, <1>3, <2>2, <2>4, <2>5 DEF EdgesInv
<1>11. CASE LogCitations
  <2>1. PICK citations \in CitationSets :
            /\ LogCall([kind |-> "citations", citations |-> citations])
            /\ cited' = citations /\ UNCHANGED <<named, chosen>>
    BY <1>11 DEF LogCitations
  <2>2. UNCHANGED <<settings, client, session>> /\ session = "open"
    BY <2>1, LogCallKept
  <2>3. client = "local" => Edges(Policy, rows', named, chosen, cited')
    BY <1>2, <2>1, <2>2, LogCallKept, CitationEdges DEF EdgesInv
  <2> QED BY <1>1, <1>3, <2>1, <2>2, <2>3 DEF EdgesInv
<1>12. CASE LogAgentEvent
  <2>1. PICK event \in AgentEvents : LogCall(EventCall(event)) /\ UNCHANGED <<named, chosen, cited>>
    BY <1>12 DEF LogAgentEvent
  <2> DEFINE call == EventCall(event)
  <2>2. LogCall(call) /\ Sanitized(Policy, call).kind = "event"
    BY <2>1 DEF Sanitized, EventCall
  <2> HIDE DEF call
  <2>4. UNCHANGED <<settings, client, session>> /\ session = "open"
    BY <2>2, LogCallKept
  <2>5. client = "local" => Edges(Policy, rows', named, chosen, cited)
    BY <1>2, <2>2, <2>4, LogCallKept, OtherEdges DEF EdgesInv
  <2> QED BY <1>1, <1>3, <2>1, <2>4, <2>5 DEF EdgesInv
<1>13. CASE Evaluate
  <2>1. rows' = Saved(Policy, rows) /\ client = "local" /\ session = "open"
        /\ UNCHANGED <<settings, client, session, named, chosen, cited>>
    BY <1>13 DEF Evaluate
  <2>2. Edges(Policy, rows', named, chosen, cited)
    BY <1>2, <2>1, SavedEdges DEF EdgesInv
  <2> QED BY <1>1, <1>3, <2>1, <2>2 DEF EdgesInv
<1>14. CASE AskHost
  BY <1>1, <1>14 DEF AskHost, EdgesInv
<1>15. CASE UNCHANGED sessionVars
  BY <1>1, <1>3, <1>15 DEF sessionVars, EdgesInv
<1> QED
  BY <1>4, <1>5, <1>6, <1>7, <1>8, <1>9, <1>10, <1>11, <1>12, <1>13, <1>14, <1>15 DEF SessionNext

\* Under every policy, and for every name that is not one the transport makes up:
\* the chunk of the name is in the store exactly when the session has logged one,
\* it is selected exactly when the session chose it, and the stored checks cite
\* the names that the session cited last.
THEOREM EdgesJoin == SessionSpec => []EdgesStayJoinable
<1>1. SessionInit => EdgesInv
  BY DEF SessionInit, EdgesInv, SafeInv
<1>2. EdgesInv => EdgesStayJoinable
  <2> SUFFICES ASSUME EdgesInv, rows # Nothing PROVE EdgesStayJoinable
    BY DEF EdgesStayJoinable
  <2>1. Edges(Policy, rows, named, chosen, cited)
    BY DEF EdgesInv, SafeInv
  <2> QED BY <2>1 DEF Edges, EdgesStayJoinable, Row, Made
<1> QED BY <1>1, <1>2, EdgesStep, PTL DEF SessionSpec

-----------------------------------------------------------------------------
(* The cipher.                                                             *)

IsPolicy(p) ==
  p = [profile |-> p.profile, allowlist |-> p.allowlist, hashOnly |-> p.hashOnly,
       patterns |-> p.patterns, cipher |-> p.cipher]

\* The policy of settings a client may have been built with.
LEMMA PolicyTyped ==
  ASSUME NEW s, s.policy \in Policies \cup {Nothing}
  PROVE  IsPolicy(PolicyOf(s))
<1>1. CASE s.policy # Nothing
  <2>1. PolicyOf(s) = s.policy /\ s.policy \in Policies
    BY <1>1 DEF PolicyOf
  <2> QED BY <2>1 DEF Policies, IsPolicy
<1>2. CASE s.policy = Nothing
  BY <1>2 DEF PolicyOf, IsPolicy
<1> QED BY <1>1, <1>2

LEMMA CipherOff ==
  ASSUME NEW p, IsPolicy(p)
  PROVE  LET c == WithoutCipher(p)
         IN  /\ c.cipher = FALSE /\ c.profile = p.profile /\ c.allowlist = p.allowlist
             /\ c.hashOnly = p.hashOnly /\ c.patterns = p.patterns
             /\ \A v : Restored(c, v) = v
             /\ \A name : ProtectIdentifier(c, name) = ProtectIdentifier(p, name)
<1> DEFINE c == WithoutCipher(p)
<1>1. c.cipher = FALSE /\ c.profile = p.profile /\ c.allowlist = p.allowlist
      /\ c.hashOnly = p.hashOnly /\ c.patterns = p.patterns
  BY DEF WithoutCipher, IsPolicy
<1>2. \A v : Restored(c, v) = v
  BY <1>1 DEF Restored
<1>3. \A name : ProtectIdentifier(c, name) = ProtectIdentifier(p, name)
  BY <1>1 DEF ProtectIdentifier
<1> QED BY <1>1, <1>2, <1>3

\* What the cipher wrote is read as what would have been written without it.
LEMMA TextRead ==
  ASSUME NEW p, IsPolicy(p), NEW text \in Texts \cup {Nothing}, NEW field \in Fields
  PROVE  /\ Restored(p, ProtectText(p, field, text)) = ProtectText(WithoutCipher(p), field, text)
         /\ Restored(p, Marker(field)) = Marker(field)
<1> DEFINE shown == IF p.profile = "strict" THEN Marker(field)
                    ELSE IF p.patterns /\ text \in Matched THEN Value("masked", text)
                    ELSE Plain(text)
           v == ProtectText(p, field, text)
<1>1. Restored(p, Marker(field)) = Marker(field)
  BY DEF Restored, Marker, Value, Fields
<1> SUFFICES Restored(p, v) = ProtectText(WithoutCipher(p), field, text)
  BY <1>1
<1>2. CASE text = Nothing
  BY <1>2 DEF ProtectText, Restored
<1>3. CASE text # Nothing /\ p.hashOnly
  <2>1. v = Value("hash", text) /\ ProtectText(WithoutCipher(p), field, text) = Value("hash", text)
    BY <1>3, CipherOff DEF ProtectText
  <2>2. Value("hash", text).form = "hash"
    BY DEF Value
  <2> QED BY <2>1, <2>2 DEF Restored
<1>4. CASE text # Nothing /\ ~p.hashOnly
  <2>1. ProtectText(WithoutCipher(p), field, text) = shown
    BY <1>4, CipherOff DEF ProtectText
  <2>2. v = IF p.cipher THEN Value("enc", shown) ELSE shown
    BY <1>4 DEF ProtectText
  <2>3. v # Nothing
    BY <1>4, TextTyped, NothingApart
  <2>4. Value("enc", shown).form = "enc" /\ Value("enc", shown).of = shown
    BY DEF Value
  <2> HIDE DEF shown, v
  <2>5. Restored(p, v) = shown
    BY <2>2, <2>3, <2>4 DEF Restored
  <2> QED BY <2>1, <2>5 DEF v
<1> QED BY <1>2, <1>3, <1>4

LEMMA MetadataRead ==
  ASSUME NEW p, IsPolicy(p), NEW metadata, \A key \in DOMAIN metadata : metadata[key] \in Texts \cup {Nothing}
  PROVE  LET safe == ProtectMetadata(p, metadata)
         IN  ProtectMetadata(WithoutCipher(p), metadata) = [key \in DOMAIN safe |-> Restored(p, safe[key])]
<1> DEFINE safe == ProtectMetadata(p, metadata)
           c == WithoutCipher(p)
<1>1. c.allowlist = p.allowlist
  BY CipherOff
<1>2. "metadata" \in Fields
  BY DEF Fields
<1>3. \A key \in DOMAIN metadata :
         Restored(p, ProtectText(p, "metadata", metadata[key])) = ProtectText(c, "metadata", metadata[key])
  BY <1>2, TextRead
<1>4. Restored(p, Nothing) = Nothing
  BY DEF Restored
<1> HIDE DEF c
<1>5. \A key \in DOMAIN metadata : ProtectMetadata(c, metadata)[key] = Restored(p, safe[key])
  BY <1>1, <1>3, <1>4 DEF ProtectMetadata
<1>6. ProtectMetadata(c, metadata) = [key \in DOMAIN metadata |-> ProtectMetadata(c, metadata)[key]]
      /\ DOMAIN safe = DOMAIN metadata
  BY DEF ProtectMetadata
<1> HIDE DEF safe
<1> QED BY <1>5, <1>6 DEF c, safe

\* What a value holds.
LEMMA RestoredTyped ==
  ASSUME NEW p, NEW v \in Values \cup {Nothing}
  PROVE  /\ Restored(p, v) \in Values \cup {Nothing}
         /\ v \in Values => Restored(p, v) \in Values
<1>1. CASE v # Nothing /\ v.form = "enc"
  <2>1. v \in Values
    BY <1>1
  <2>2. v \notin Readable
    BY <1>1 DEF Readable, Fields
  <2>3. v.of \in Readable
    BY <2>1, <2>2 DEF Values
  <2>4. Readable \subseteq Values
    BY DEF Values
  <2> QED BY <2>1, <2>3, <2>4 DEF Restored
<1>2. CASE ~(v # Nothing /\ v.form = "enc")
  BY <1>2 DEF Restored
<1> QED BY <1>1, <1>2

\* A table of chunks as a client with policy p reads it.
ReadTable(p, table) == [id \in Idents |-> IF table[id] = Nothing THEN Nothing ELSE ReadRow(p, table[id])]

LEMMA RowRead ==
  ASSUME NEW p, NEW content, NEW source, NEW stance, NEW relevance, NEW selected
  PROVE  ReadRow(p, [content |-> content, source |-> source, stance |-> stance, relevance |-> relevance,
                     selected |-> selected])
           = [content |-> Restored(p, content), source |-> Restored(p, source),
              stance |-> Restored(p, stance), relevance |-> relevance, selected |-> selected]
BY DEF ReadRow

LEMMA RowReadTyped ==
  ASSUME NEW p, NEW row \in ChunkRow
  PROVE  /\ ReadRow(p, row) \in ChunkRow /\ ReadRow(p, row) # Nothing
         /\ ReadRow(p, row).selected = row.selected
<1>1. /\ row.content \in Values /\ row.source \in Values \cup {Nothing}
      /\ row.stance \in Values \cup {Nothing} /\ row.relevance \in 1..1000 \cup {Nothing}
      /\ row.selected \in BOOLEAN
  BY DEF ChunkRow
<1>2. /\ Restored(p, row.content) \in Values /\ Restored(p, row.source) \in Values \cup {Nothing}
      /\ Restored(p, row.stance) \in Values \cup {Nothing}
  BY <1>1, RestoredTyped
<1>3. ReadRow(p, row) \in ChunkRow
  BY <1>1, <1>2 DEF ChunkRow, ReadRow
<1> QED BY <1>3, NothingApart DEF ReadRow

LEMMA LoggedRead ==
  ASSUME NEW p, IsPolicy(p), NEW field \in Fields, NEW v
  PROVE  Restored(p, Logged(field, v)) = Logged(field, Restored(p, v))
BY TextRead DEF Logged

LEMMA ChunkRead ==
  ASSUME NEW p, IsPolicy(p), NEW item \in ChunkItem
  PROVE  LET chunk == SafeChunk(p, item)
             plain == SafeChunk(WithoutCipher(p), item)
         IN  /\ plain.name = chunk.name /\ plain.relevance = chunk.relevance
             /\ plain.content = Restored(p, chunk.content) /\ plain.source = Restored(p, chunk.source)
             /\ plain.stance = Restored(p, chunk.stance)
<1> DEFINE c == WithoutCipher(p)
           metadata == [stance |-> item.stance]
<1>1. /\ item.content \in Texts \cup {Nothing} /\ item.source \in Texts \cup {Nothing}
      /\ item.stance \in Texts \cup {Nothing}
  BY DEF ChunkItem, TextOrNothing
<1>2. \A text \in Texts \cup {Nothing}, field \in Fields :
         Restored(p, ProtectText(p, field, text)) = ProtectText(c, field, text)
  BY TextRead
<1>3. ProtectMetadata(c, metadata).stance = Restored(p, ProtectMetadata(p, metadata).stance)
  <2>1. ProtectMetadata(c, metadata)
          = [key \in DOMAIN ProtectMetadata(p, metadata) |-> Restored(p, ProtectMetadata(p, metadata)[key])]
    BY <1>1, MetadataRead
  <2>2. "stance" \in DOMAIN ProtectMetadata(p, metadata)
    BY DEF ProtectMetadata
  <2> QED BY <2>1, <2>2
<1>4. ProtectIdentifier(c, item.name) = ProtectIdentifier(p, item.name)
  BY CipherOff
<1>5. "chunk_text" \in Fields /\ "source" \in Fields
  BY DEF Fields
<1> HIDE DEF c
<1> QED BY <1>1, <1>2, <1>3, <1>4, <1>5 DEF SafeChunk, c

LEMMA UpsertedRead ==
  ASSUME NEW p, IsPolicy(p), NEW table, TypedTable(table), NEW items \in ChunkLists, NEW selected \in BOOLEAN
  PROVE  ReadTable(p, Upserted(table, SafeChunks(p, items), selected))
           = Upserted(ReadTable(p, table), SafeChunks(WithoutCipher(p), items), selected)
<1> DEFINE A == SafeChunks(p, items)
           B == SafeChunks(WithoutCipher(p), items)
           new == Upserted(table, A, selected)
           plain == Upserted(ReadTable(p, table), B, selected)
<1>1. /\ items \in Seq(ChunkItem) /\ DOMAIN items = 1..Len(items) /\ Len(items) \in Nat
      /\ \A i \in DOMAIN items : items[i] \in ChunkItem
  <2>1. items \in Seq(ChunkItem)
    BY InputsAssumption
  <2> QED BY <2>1
<1>2. DOMAIN A = DOMAIN items /\ DOMAIN B = DOMAIN items
  BY DEF SafeChunks
<1>3. \A i \in DOMAIN items :
         /\ B[i].name = A[i].name /\ B[i].relevance = A[i].relevance
         /\ B[i].content = Restored(p, A[i].content) /\ B[i].source = Restored(p, A[i].source)
         /\ B[i].stance = Restored(p, A[i].stance)
  <2>1. \A i \in DOMAIN items : A[i] = SafeChunk(p, items[i]) /\ B[i] = SafeChunk(WithoutCipher(p), items[i])
    BY DEF SafeChunks
  <2> HIDE DEF A, B
  <2> QED BY <1>1, <2>1, ChunkRead
<1>4. \A id \in Idents : Places(A, id) # {} => new[id] \in ChunkRow
  BY UpsertedEdges
<1> HIDE DEF A, B
<1>5. \A id : Places(B, id) = Places(A, id)
  <2>1. \A i \in DOMAIN items : IdentOf(B, i) = IdentOf(A, i)
    BY <1>3 DEF IdentOf
  <2> QED BY <1>2, <2>1 DEF Places
<1>6. ASSUME NEW id \in Idents PROVE ReadTable(p, new)[id] = plain[id]
  <2>1. ReadTable(p, new)[id] = IF new[id] = Nothing THEN Nothing ELSE ReadRow(p, new[id])
    BY DEF ReadTable
  <2>2. CASE Places(A, id) = {}
    <3>1. new[id] = table[id] /\ plain[id] = ReadTable(p, table)[id]
      BY <1>5, <2>2 DEF Upserted
    <3> QED BY <2>1, <3>1 DEF ReadTable
  <2>3. CASE Places(A, id) # {}
    <3> DEFINE last == LastOf(Places(A, id))
               keeps == selected \/ (table[id] # Nothing /\ table[id].selected)
               keepsPlain == selected \/ (ReadTable(p, table)[id] # Nothing /\ ReadTable(p, table)[id].selected)
    <3>1. last \in DOMAIN items
      <4>1. Places(A, id) \subseteq 1..Len(items)
        BY <1>1, <1>2 DEF Places
      <4>2. last \in Places(A, id)
        BY <1>1, <2>3, <4>1, LastOfIn
      <4> QED BY <1>2, <4>2 DEF Places
    <3>2. new[id] = [content |-> Logged("chunk_text", A[last].content), source |-> A[last].source,
                     stance |-> A[last].stance, relevance |-> A[last].relevance, selected |-> keeps]
      BY <2>3 DEF Upserted
    <3>3. plain[id] = [content |-> Logged("chunk_text", B[last].content), source |-> B[last].source,
                       stance |-> B[last].stance, relevance |-> B[last].relevance, selected |-> keepsPlain]
      BY <1>5, <2>3 DEF Upserted
    <3>4. keepsPlain = keeps
      <4>1. CASE table[id] = Nothing
        BY <4>1 DEF ReadTable
      <4>2. CASE table[id] # Nothing
        <5>1. table[id] \in ChunkRow
          BY <4>2 DEF TypedTable
        <5>2. ReadTable(p, table)[id] = ReadRow(p, table[id])
          BY <4>2 DEF ReadTable
        <5>3. ReadRow(p, table[id]) # Nothing /\ ReadRow(p, table[id]).selected = table[id].selected
          BY <5>1, RowReadTyped
        <5> QED BY <4>2, <5>2, <5>3
      <4> QED BY <4>1, <4>2
    <3> HIDE DEF last, keeps, keepsPlain, new, plain
    <3>10. PICK place, kept :
            /\ place \in DOMAIN items
            /\ new[id] = [content |-> Logged("chunk_text", A[place].content), source |-> A[place].source,
                          stance |-> A[place].stance, relevance |-> A[place].relevance, selected |-> kept]
            /\ plain[id] = [content |-> Logged("chunk_text", B[place].content), source |-> B[place].source,
                            stance |-> B[place].stance, relevance |-> B[place].relevance, selected |-> kept]
      BY <3>1, <3>2, <3>3, <3>4
    <3>5. "chunk_text" \in Fields
      BY DEF Fields
    <3>6. ReadTable(p, new)[id] = ReadRow(p, new[id])
      BY <1>4, <2>1, <2>3, NothingApart
    <3>7. /\ B[place].relevance = A[place].relevance /\ B[place].content = Restored(p, A[place].content)
          /\ B[place].source = Restored(p, A[place].source) /\ B[place].stance = Restored(p, A[place].stance)
      BY <1>3, <3>10
    <3>8. Restored(p, Logged("chunk_text", A[place].content))
            = Logged("chunk_text", B[place].content)
      <4>1. Restored(p, Logged("chunk_text", A[place].content))
              = Logged("chunk_text", Restored(p, A[place].content))
        BY <3>5, LoggedRead
      <4> QED BY <3>7, <4>1
    <3>9. ReadRow(p, new[id])
            = [content |-> Restored(p, Logged("chunk_text", A[place].content)),
               source |-> Restored(p, A[place].source), stance |-> Restored(p, A[place].stance),
               relevance |-> A[place].relevance, selected |-> kept]
      <4>1. /\ new[id].content = Logged("chunk_text", A[place].content)
            /\ new[id].source = A[place].source /\ new[id].stance = A[place].stance
            /\ new[id].relevance = A[place].relevance /\ new[id].selected = kept
        BY <3>10
      <4> QED BY <4>1 DEF ReadRow
    <3> QED BY <3>10, <3>6, <3>7, <3>8, <3>9
  <2> QED BY <2>2, <2>3
<1>7. ReadTable(p, new) = [id \in Idents |-> ReadTable(p, new)[id]] /\ plain = [id \in Idents |-> plain[id]]
  BY DEF ReadTable, Upserted
<1> HIDE DEF new, plain
<1> QED BY <1>6, <1>7 DEF new, plain, A, B

\* Selecting a row and reading it commute.
LEMMA SelectedRead ==
  ASSUME NEW p, NEW row \in ChunkRow
  PROVE  ReadRow(p, [row EXCEPT !.selected = TRUE]) = [ReadRow(p, row) EXCEPT !.selected = TRUE]
<1> DEFINE new == [row EXCEPT !.selected = TRUE]
<1>1. row = [content |-> row.content, source |-> row.source, stance |-> row.stance,
             relevance |-> row.relevance, selected |-> row.selected]
  BY DEF ChunkRow
<1>2. /\ new.content = row.content /\ new.source = row.source
      /\ new.stance = row.stance /\ new.relevance = row.relevance /\ new.selected = TRUE
  BY <1>1
<1> HIDE DEF new
<1>3. ReadRow(p, new)
        = [content |-> Restored(p, row.content), source |-> Restored(p, row.source),
           stance |-> Restored(p, row.stance), relevance |-> row.relevance, selected |-> TRUE]
  BY <1>2 DEF ReadRow
<1> DEFINE old == ReadRow(p, row)
<1>4. /\ old = [content |-> old.content, source |-> old.source, stance |-> old.stance,
                relevance |-> old.relevance, selected |-> old.selected]
      /\ old.content = Restored(p, row.content) /\ old.source = Restored(p, row.source)
      /\ old.stance = Restored(p, row.stance) /\ old.relevance = row.relevance
  BY DEF ReadRow
<1> HIDE DEF old
<1> DEFINE chosenRow == [old EXCEPT !.selected = TRUE]
<1>5. /\ DOMAIN chosenRow = DOMAIN old
      /\ chosenRow = [x \in DOMAIN old |-> chosenRow[x]]
      /\ chosenRow.content = old.content /\ chosenRow.source = old.source
      /\ chosenRow.stance = old.stance /\ chosenRow.relevance = old.relevance
      /\ chosenRow.selected = TRUE
  BY <1>4
<1> HIDE DEF chosenRow
<1>6. chosenRow = [content |-> old.content, source |-> old.source,
           stance |-> old.stance, relevance |-> old.relevance, selected |-> TRUE]
  BY <1>4, <1>5
<1>7. chosenRow = ReadRow(p, new)
  BY <1>3, <1>4, <1>6
<1> QED BY <1>7 DEF new, old, chosenRow

LEMMA MarkedRead ==
  ASSUME NEW p, NEW table, TypedTable(table), NEW ids
  PROVE  ReadTable(p, Rows!Marked(table, ids)) = Rows!Marked(ReadTable(p, table), ids)
<1> DEFINE marked == Rows!Marked(table, ids)
           plain == Rows!Marked(ReadTable(p, table), ids)
<1>1. ASSUME NEW id \in Idents PROVE ReadTable(p, marked)[id] = plain[id]
  <2>1. ReadTable(p, marked)[id] = IF marked[id] = Nothing THEN Nothing ELSE ReadRow(p, marked[id])
    BY DEF ReadTable
  <2>2. ReadTable(p, table)[id] = IF table[id] = Nothing THEN Nothing ELSE ReadRow(p, table[id])
    BY DEF ReadTable
  <2>3. CASE table[id] = Nothing
    <3>1. marked[id] = Nothing /\ plain[id] = Nothing
      BY <2>2, <2>3 DEF Rows!Marked
    <3> QED BY <2>1, <3>1
  <2>4. CASE table[id] # Nothing /\ id \notin ids
    <3>1. marked[id] = table[id] /\ plain[id] = ReadTable(p, table)[id]
      BY <2>4 DEF Rows!Marked
    <3> QED BY <2>1, <2>2, <3>1
  <2>5. CASE table[id] # Nothing /\ id \in ids
    <3> DEFINE row == table[id]
    <3>1. row \in ChunkRow
      BY <2>5 DEF TypedTable
    <3>2. ReadRow(p, row) # Nothing
      BY <3>1, RowReadTyped
    <3>3. marked[id] = [row EXCEPT !.selected = TRUE]
      BY <2>5 DEF Rows!Marked
    <3>4. plain[id] = [ReadRow(p, row) EXCEPT !.selected = TRUE]
      BY <2>2, <2>5, <3>2 DEF Rows!Marked
    <3>5. marked[id] # Nothing
      BY <2>5, MarkedTyped
    <3>6. ReadRow(p, marked[id]) = [ReadRow(p, row) EXCEPT !.selected = TRUE]
      <4> HIDE DEF row, marked
      <4> QED BY <3>1, <3>3, SelectedRead
    <3> QED BY <2>1, <3>4, <3>5, <3>6
  <2> QED BY <2>3, <2>4, <2>5
<1>2. ReadTable(p, marked) = [id \in Idents |-> ReadTable(p, marked)[id]]
      /\ plain = [id \in Idents |-> plain[id]]
  BY DEF ReadTable, Rows!Marked
<1> HIDE DEF marked, plain
<1> QED BY <1>1, <1>2 DEF marked, plain

IsTrace(t) ==
  t = [query |-> t.query, metadata |-> t.metadata, chunks |-> t.chunks, answer |-> t.answer,
       tokens |-> t.tokens, checks |-> t.checks, events |-> t.events, report |-> t.report]

Cites(p, checks) == {<<Restored(p, k.claim), k.source>> : k \in checks}

\* t is stored with the cipher, and u is the same stored without.
Agree(p, t, u) ==
  /\ IsTrace(t) /\ IsTrace(u)
  /\ u.query = Restored(p, t.query) /\ u.answer = Restored(p, t.answer)
  /\ u.tokens = t.tokens /\ u.report = t.report
  /\ u.metadata = [key \in DOMAIN t.metadata |-> Restored(p, t.metadata[key])]
  /\ u.chunks = ReadTable(p, t.chunks)
  /\ {<<k.claim, k.source>> : k \in u.checks} = Cites(p, t.checks)
  /\ u.events = {ReadEvent(p, event) : event \in t.events}

\* What ReadBack makes of the fields.
LEMMA ReadBackFields ==
  ASSUME NEW p, NEW t, IsTrace(t)
  PROVE  LET read == ReadBack(p, t)
         IN  /\ IsTrace(read)
             /\ read.query = Restored(p, t.query) /\ read.answer = Restored(p, t.answer)
             /\ read.tokens = t.tokens /\ read.report = t.report
             /\ read.metadata = [key \in DOMAIN t.metadata |-> Restored(p, t.metadata[key])]
             /\ read.chunks = ReadTable(p, t.chunks)
             /\ read.checks = {[claim |-> Restored(p, k.claim), source |-> k.source, status |-> k.status] :
                                 k \in t.checks}
             /\ read.events = {ReadEvent(p, event) : event \in t.events}
<1> DEFINE metadata == [key \in DOMAIN t.metadata |-> Restored(p, t.metadata[key])]
           chunks == ReadTable(p, t.chunks)
           checks == {[claim |-> Restored(p, k.claim), source |-> k.source, status |-> k.status] : k \in t.checks}
           events == {ReadEvent(p, event) : event \in t.events}
           read == ReadBack(p, t)
<1>1. read = [t EXCEPT !.query = Restored(p, @), !.answer = Restored(p, @), !.metadata = metadata,
                       !.chunks = chunks, !.checks = checks, !.events = events]
  BY DEF ReadBack, ReadTable
<1> HIDE DEF metadata, chunks, checks, events
<1>2. /\ read.query = Restored(p, t.query) /\ read.answer = Restored(p, t.answer)
      /\ read.tokens = t.tokens /\ read.report = t.report
      /\ read.metadata = metadata /\ read.chunks = chunks /\ read.checks = checks /\ read.events = events
  <2> HIDE DEF read
  <2> QED BY <1>1 DEF IsTrace
<1>3. IsTrace(read)
  <2> HIDE DEF read
  <2> QED BY <1>1 DEF IsTrace
<1> QED BY <1>2, <1>3 DEF metadata, chunks, checks, events

\* A step that changes the chunks only.
LEMMA ChunksAgree ==
  ASSUME NEW p, NEW t, NEW u, Agree(p, t, u), NEW table,
         NEW new, new = [t EXCEPT !.chunks = table],
         NEW plain, plain = [u EXCEPT !.chunks = ReadTable(p, table)]
  PROVE  Agree(p, new, plain)
<1>1. /\ IsTrace(new) /\ new.query = t.query /\ new.answer = t.answer /\ new.tokens = t.tokens
      /\ new.report = t.report /\ new.metadata = t.metadata /\ new.chunks = table
      /\ new.checks = t.checks /\ new.events = t.events
  BY DEF Agree, IsTrace
<1>2. /\ IsTrace(plain) /\ plain.query = u.query /\ plain.answer = u.answer /\ plain.tokens = u.tokens
      /\ plain.report = u.report /\ plain.metadata = u.metadata /\ plain.chunks = ReadTable(p, table)
      /\ plain.checks = u.checks /\ plain.events = u.events
  BY DEF Agree, IsTrace
<1> QED BY <1>1, <1>2 DEF Agree

\* What each call writes, with the cipher and without it.
LEMMA StartAgree ==
  ASSUME NEW p, IsPolicy(p), NEW t \in Traces, NEW old, NEW older
  PROVE  LET call == [kind |-> "start", query |-> t.query, metadata |-> t.metadata]
         IN  Agree(p, Handled(old, Sanitized(p, call)), Handled(older, Sanitized(WithoutCipher(p), call)))
<1> DEFINE call == [kind |-> "start", query |-> t.query, metadata |-> t.metadata]
           c == WithoutCipher(p)
           new == Handled(old, Sanitized(p, call))
           plain == Handled(older, Sanitized(c, call))
<1>1. /\ new = [NoTrace EXCEPT !.query = ProtectText(p, "query", t.query),
                               !.metadata = ProtectMetadata(p, t.metadata)]
      /\ plain = [NoTrace EXCEPT !.query = ProtectText(c, "query", t.query),
                                 !.metadata = ProtectMetadata(c, t.metadata)]
  BY DEF Sanitized, Handled
<1>2. /\ t.query \in Texts \cup {Nothing} /\ \A key \in DOMAIN t.metadata : t.metadata[key] \in Texts \cup {Nothing}
      /\ "query" \in Fields
  BY InputsAssumption DEF Fields
<1>3. ProtectText(c, "query", t.query) = Restored(p, ProtectText(p, "query", t.query))
  BY <1>2, TextRead
<1>4. ProtectMetadata(c, t.metadata)
        = [key \in DOMAIN ProtectMetadata(p, t.metadata) |-> Restored(p, ProtectMetadata(p, t.metadata)[key])]
  BY <1>2, MetadataRead
<1>5. ReadTable(p, Rows!NoChunks) = Rows!NoChunks
  BY DEF ReadTable, Rows!NoChunks
<1> HIDE DEF new, plain
<1>6. /\ new = [query |-> ProtectText(p, "query", t.query), metadata |-> ProtectMetadata(p, t.metadata),
                chunks |-> Rows!NoChunks, answer |-> Nothing, tokens |-> Nothing, checks |-> {},
                events |-> {}, report |-> Nothing]
      /\ plain = [query |-> ProtectText(c, "query", t.query), metadata |-> ProtectMetadata(c, t.metadata),
                  chunks |-> Rows!NoChunks, answer |-> Nothing, tokens |-> Nothing, checks |-> {},
                  events |-> {}, report |-> Nothing]
  BY <1>1 DEF NoTrace
<1>7. Restored(p, Nothing) = Nothing
  BY DEF Restored
<1>8. IsTrace(new) /\ IsTrace(plain)
  BY <1>6 DEF IsTrace
<1>9. Agree(p, new, plain)
  BY <1>3, <1>4, <1>5, <1>6, <1>7, <1>8 DEF Agree, Cites
<1> QED BY <1>9 DEF new, plain

LEMMA RetrievalAgree ==
  ASSUME NEW p, IsPolicy(p), NEW t, NEW u, Agree(p, t, u), TypedTable(t.chunks), NEW items \in ChunkLists
  PROVE  LET call == [kind |-> "retrieval", chunks |-> items, ids |-> {}]
         IN  Agree(p, Handled(t, Sanitized(p, call)), Handled(u, Sanitized(WithoutCipher(p), call)))
<1> DEFINE call == [kind |-> "retrieval", chunks |-> items, ids |-> {}]
           c == WithoutCipher(p)
           A == Upserted(t.chunks, SafeChunks(p, items), FALSE)
           B == Upserted(u.chunks, SafeChunks(c, items), FALSE)
           new == Handled(t, Sanitized(p, call))
           plain == Handled(u, Sanitized(c, call))
<1>1. new = [t EXCEPT !.chunks = A]
  BY DEF Sanitized, Handled
<1>2. plain = [u EXCEPT !.chunks = B]
  <2> HIDE DEF c
  <2> QED BY DEF Sanitized, Handled
<1>3. u.chunks = ReadTable(p, t.chunks)
  BY DEF Agree
<1>4. B = ReadTable(p, A)
  <2>1. A = Upserted(t.chunks, SafeChunks(p, items), FALSE)
    OBVIOUS
  <2>2. B = Upserted(ReadTable(p, t.chunks), SafeChunks(WithoutCipher(p), items), FALSE)
    BY <1>3
  <2> HIDE DEF A, B
  <2> QED BY <2>1, <2>2, UpsertedRead
<1> HIDE DEF A, B, new, plain
<1>5. Agree(p, new, plain)
  BY <1>1, <1>2, <1>4, ChunksAgree
<1> QED BY <1>5 DEF new, plain

LEMMA ContextAgree ==
  ASSUME NEW p, IsPolicy(p), NEW t, NEW u, Agree(p, t, u), TypedTable(t.chunks),
         NEW items \in ChunkLists, NEW ids \in NameSets
  PROVE  LET call == [kind |-> "context", chunks |-> items, ids |-> ids]
         IN  Agree(p, Handled(t, Sanitized(p, call)), Handled(u, Sanitized(WithoutCipher(p), call)))
<1> DEFINE call == [kind |-> "context", chunks |-> items, ids |-> ids]
           c == WithoutCipher(p)
           hidden == {ProtectIdentifier(p, name) : name \in ids}
           markedA == Rows!Marked(t.chunks, hidden)
           markedB == Rows!Marked(u.chunks, hidden)
           A == Upserted(markedA, SafeChunks(p, items), TRUE)
           B == Upserted(markedB, SafeChunks(c, items), TRUE)
           new == Handled(t, Sanitized(p, call))
           plain == Handled(u, Sanitized(c, call))
<1>1. {ProtectIdentifier(c, name) : name \in ids} = hidden
  BY CipherOff
<1>2. new = [t EXCEPT !.chunks = A]
  BY DEF Sanitized, Handled
<1>3. plain = [u EXCEPT !.chunks = B]
  <2>1. plain = [u EXCEPT !.chunks = Upserted(Rows!Marked(@, {ProtectIdentifier(c, name) : name \in ids}),
                                              SafeChunks(c, items), TRUE)]
    BY DEF Sanitized, Handled
  <2> HIDE DEF plain, hidden
  <2> QED BY <1>1, <2>1
<1>4. u.chunks = ReadTable(p, t.chunks)
  BY DEF Agree
<1>5. TypedTable(markedA)
  BY InputsAssumption, MarkedEdges
<1> HIDE DEF hidden
<1>6. markedB = ReadTable(p, markedA)
  BY <1>4, MarkedRead
<1> HIDE DEF markedA, markedB
<1>7. B = ReadTable(p, A)
  BY <1>5, <1>6, UpsertedRead
<1> HIDE DEF A, B, new, plain
<1>8. Agree(p, new, plain)
  BY <1>2, <1>3, <1>7, ChunksAgree
<1> QED BY <1>8 DEF new, plain

LEMMA AnswerAgree ==
  ASSUME NEW p, IsPolicy(p), NEW t, NEW u, Agree(p, t, u), NEW text \in Texts, NEW tokens
  PROVE  LET call == [kind |-> "answer", text |-> text, tokens |-> tokens]
         IN  Agree(p, Handled(t, Sanitized(p, call)), Handled(u, Sanitized(WithoutCipher(p), call)))
<1> DEFINE call == [kind |-> "answer", text |-> text, tokens |-> tokens]
           c == WithoutCipher(p)
           A == Logged("answer_text", ProtectText(p, "answer_text", text))
           B == Logged("answer_text", ProtectText(c, "answer_text", text))
           new == Handled(t, Sanitized(p, call))
           plain == Handled(u, Sanitized(c, call))
<1>1. new = [t EXCEPT !.answer = A, !.tokens = tokens] /\ plain = [u EXCEPT !.answer = B, !.tokens = tokens]
  BY DEF Sanitized, Handled
<1>2. B = Restored(p, A)
  <2>1. "answer_text" \in Fields
    BY DEF Fields
  <2>2. ProtectText(c, "answer_text", text) = Restored(p, ProtectText(p, "answer_text", text))
    BY <2>1, TextRead
  <2> QED BY <2>1, <2>2, LoggedRead
<1> HIDE DEF A, B, new, plain
<1>3. /\ IsTrace(new) /\ new.query = t.query /\ new.answer = A /\ new.tokens = tokens
      /\ new.report = t.report /\ new.metadata = t.metadata /\ new.chunks = t.chunks
      /\ new.checks = t.checks /\ new.events = t.events
  BY <1>1 DEF Agree, IsTrace
<1>4. /\ IsTrace(plain) /\ plain.query = u.query /\ plain.answer = B /\ plain.tokens = tokens
      /\ plain.report = u.report /\ plain.metadata = u.metadata /\ plain.chunks = u.chunks
      /\ plain.checks = u.checks /\ plain.events = u.events
  BY <1>1 DEF Agree, IsTrace
<1>5. Agree(p, new, plain)
  BY <1>2, <1>3, <1>4 DEF Agree
<1> QED BY <1>5 DEF new, plain

LEMMA CitationsAgree ==
  ASSUME NEW p, IsPolicy(p), NEW t, NEW u, Agree(p, t, u), NEW citations \in CitationSets
  PROVE  LET call == [kind |-> "citations", citations |-> citations]
         IN  Agree(p, Handled(t, Sanitized(p, call)), Handled(u, Sanitized(WithoutCipher(p), call)))
<1> DEFINE call == [kind |-> "citations", citations |-> citations]
           c == WithoutCipher(p)
           A == Rows!PendingChecks({SafeCitation(p, k) : k \in citations})
           B == Rows!PendingChecks({SafeCitation(c, k) : k \in citations})
           new == Handled(t, Sanitized(p, call))
           plain == Handled(u, Sanitized(c, call))
<1>1. new = [t EXCEPT !.checks = A]
  BY DEF Sanitized, Handled
<1>2. plain = [u EXCEPT !.checks = B]
  <2> HIDE DEF c
  <2> QED BY DEF Sanitized, Handled
<1>3. {<<k.claim, k.source>> : k \in B} = Cites(p, A)
  <2>1. \A k \in citations : /\ SafeCitation(c, k).claim = Restored(p, SafeCitation(p, k).claim)
                             /\ SafeCitation(c, k).source = SafeCitation(p, k).source
    <3> SUFFICES ASSUME NEW k \in citations
                 PROVE  /\ SafeCitation(c, k).claim = Restored(p, SafeCitation(p, k).claim)
                        /\ SafeCitation(c, k).source = SafeCitation(p, k).source
      OBVIOUS
    <3>1. k.claim \in Texts /\ "citation_claim" \in Fields
      BY InputsAssumption DEF Fields
    <3>2. ProtectText(c, "citation_claim", k.claim) = Restored(p, ProtectText(p, "citation_claim", k.claim))
      BY <3>1, TextRead
    <3>3. ProtectIdentifier(c, k.source) = ProtectIdentifier(p, k.source)
      BY CipherOff
    <3> HIDE DEF c
    <3> QED BY <3>2, <3>3 DEF SafeCitation
  <2> DEFINE Pending(k) == [claim |-> k.claim, source |-> k.source, status |-> "pending"]
  <2>2. /\ A = {Pending(SafeCitation(p, k)) : k \in citations}
        /\ B = {Pending(SafeCitation(c, k)) : k \in citations}
    BY DEF Rows!PendingChecks
  <2>3. \A k : Pending(k).claim = k.claim /\ Pending(k).source = k.source
    OBVIOUS
  <2> HIDE DEF A, B, Pending, c
  <2>4. /\ {<<k.claim, k.source>> : k \in B}
             = {<<SafeCitation(c, k).claim, SafeCitation(c, k).source>> : k \in citations}
        /\ Cites(p, A)
             = {<<Restored(p, SafeCitation(p, k).claim), SafeCitation(p, k).source>> : k \in citations}
    BY <2>2, <2>3 DEF Cites
  <2> QED BY <2>1, <2>4
<1> HIDE DEF A, B, new, plain
<1>4. /\ IsTrace(new) /\ new.query = t.query /\ new.answer = t.answer /\ new.tokens = t.tokens
      /\ new.report = t.report /\ new.metadata = t.metadata /\ new.chunks = t.chunks
      /\ new.checks = A /\ new.events = t.events
  BY <1>1 DEF Agree, IsTrace
<1>5. /\ IsTrace(plain) /\ plain.query = u.query /\ plain.answer = u.answer /\ plain.tokens = u.tokens
      /\ plain.report = u.report /\ plain.metadata = u.metadata /\ plain.chunks = u.chunks
      /\ plain.checks = B /\ plain.events = u.events
  BY <1>2 DEF Agree, IsTrace
<1>6. Agree(p, new, plain)
  BY <1>3, <1>4, <1>5 DEF Agree
<1> QED BY <1>6 DEF new, plain

LEMMA EventAgree ==
  ASSUME NEW p, IsPolicy(p), NEW t, NEW u, Agree(p, t, u), NEW event \in AgentEvents
  PROVE  LET call == EventCall(event)
         IN  Agree(p, Handled(t, Sanitized(p, call)), Handled(u, Sanitized(WithoutCipher(p), call)))
<1> DEFINE call == EventCall(event)
           c == WithoutCipher(p)
           A == SafeEvent(p, event)
           B == SafeEvent(c, event)
           new == Handled(t, Sanitized(p, call))
           plain == Handled(u, Sanitized(c, call))
<1>1. new = [t EXCEPT !.events = @ \cup {A}]
  BY DEF Sanitized, Handled, EventCall
<1>2. plain = [u EXCEPT !.events = @ \cup {B}]
  <2> HIDE DEF c
  <2> QED BY DEF Sanitized, Handled, EventCall
<1>3. B = ReadEvent(p, A)
  <2>1. /\ event.name \in Texts \cup {Nothing} /\ event.error \in Texts \cup {Nothing}
        /\ event.input \subseteq Texts /\ event.output \subseteq Texts
    <3>1. event \in [name : TextOrNothing, input : SUBSET Texts, output : SUBSET Texts, error : TextOrNothing]
      BY InputsAssumption
    <3> QED BY <3>1 DEF TextOrNothing
  <2>2. {"agent_event_name", "agent_error", "tool_input", "tool_output"} \subseteq Fields
    BY DEF Fields
  <2>3. \A text \in Texts \cup {Nothing}, field \in Fields :
           ProtectText(c, field, text) = Restored(p, ProtectText(p, field, text))
    BY TextRead
  <2>4. /\ ProtectText(c, "agent_event_name", event.name) = Restored(p, ProtectText(p, "agent_event_name", event.name))
        /\ ProtectText(c, "agent_error", event.error) = Restored(p, ProtectText(p, "agent_error", event.error))
    BY <2>1, <2>2, <2>3
  <2>5. /\ {ProtectText(c, "tool_input", text) : text \in event.input}
             = {Restored(p, v) : v \in {ProtectText(p, "tool_input", text) : text \in event.input}}
        /\ {ProtectText(c, "tool_output", text) : text \in event.output}
             = {Restored(p, v) : v \in {ProtectText(p, "tool_output", text) : text \in event.output}}
    BY <2>1, <2>2, <2>3
  <2>6. /\ A.name = ProtectText(p, "agent_event_name", event.name)
        /\ A.error = ProtectText(p, "agent_error", event.error)
        /\ A.input = {ProtectText(p, "tool_input", text) : text \in event.input}
        /\ A.output = {ProtectText(p, "tool_output", text) : text \in event.output}
    BY DEF SafeEvent
  <2> HIDE DEF c, A
  <2> QED BY <2>4, <2>5, <2>6 DEF SafeEvent, ReadEvent
<1> HIDE DEF A, B, new, plain
<1>4. /\ IsTrace(new) /\ new.query = t.query /\ new.answer = t.answer /\ new.tokens = t.tokens
      /\ new.report = t.report /\ new.metadata = t.metadata /\ new.chunks = t.chunks
      /\ new.checks = t.checks /\ new.events = t.events \cup {A}
  BY <1>1 DEF Agree, IsTrace
<1>5. /\ IsTrace(plain) /\ plain.query = u.query /\ plain.answer = u.answer /\ plain.tokens = u.tokens
      /\ plain.report = u.report /\ plain.metadata = u.metadata /\ plain.chunks = u.chunks
      /\ plain.checks = u.checks /\ plain.events = u.events \cup {B}
  BY <1>2 DEF Agree, IsTrace
<1>6. plain.events = {ReadEvent(p, e) : e \in new.events}
  <2>1. u.events = {ReadEvent(p, e) : e \in t.events}
    BY DEF Agree
  <2> QED BY <1>3, <1>4, <1>5, <2>1
<1>7. Agree(p, new, plain)
  BY <1>4, <1>5, <1>6 DEF Agree
<1> QED BY <1>7 DEF new, plain

-----------------------------------------------------------------------------
\* An evaluation judges a check by its claim and its source.
LEMMA JudgedAlike ==
  ASSUME NEW table, NEW A, NEW B,
         {<<k.claim, k.source>> : k \in A} = {<<k.claim, k.source>> : k \in B}
  PROVE  Rows!Evaluated(table, A) = Rows!Evaluated(table, B)
<1> DEFINE Verdict(claim, source) ==
              Rows!Verdict(IF table[source] = Nothing THEN 0 ELSE Overlap[claim][table[source].content])
           J(claim, source) == [claim |-> claim, source |-> source, status |-> Verdict(claim, source)]
<1>1. \A k : Rows!Judged(table, k) = J(k.claim, k.source)
  BY DEF Rows!Judged
<1>2. /\ Rows!Evaluated(table, A) = {Rows!Judged(table, k) : k \in A}
      /\ Rows!Evaluated(table, B) = {Rows!Judged(table, k) : k \in B}
  BY DEF Rows!Evaluated
<1> HIDE DEF J
<1>3. ASSUME NEW k \in A PROVE \E j \in B : j.claim = k.claim /\ j.source = k.source
  <2>1. <<k.claim, k.source>> \in {<<j.claim, j.source>> : j \in A}
    OBVIOUS
  <2>2. <<k.claim, k.source>> \in {<<j.claim, j.source>> : j \in B}
    BY <2>1
  <2>3. PICK j \in B : <<k.claim, k.source>> = <<j.claim, j.source>>
    BY <2>2
  <2> QED BY <2>3
<1>4. ASSUME NEW k \in B PROVE \E j \in A : j.claim = k.claim /\ j.source = k.source
  <2>1. <<k.claim, k.source>> \in {<<j.claim, j.source>> : j \in B}
    OBVIOUS
  <2>2. <<k.claim, k.source>> \in {<<j.claim, j.source>> : j \in A}
    BY <2>1
  <2>3. PICK j \in A : <<k.claim, k.source>> = <<j.claim, j.source>>
    BY <2>2
  <2> QED BY <2>3
<1> QED BY <1>1, <1>2, <1>3, <1>4

\* The verdicts leave the checks with their claims and sources.
LEMMA CitesStay ==
  ASSUME NEW p, NEW checks, NEW evaluated
  PROVE  /\ Cites(p, Rows!WithVerdicts(checks, evaluated)) = Cites(p, checks)
         /\ {<<k.claim, k.source>> : k \in Rows!WithVerdicts(checks, evaluated)}
              = {<<k.claim, k.source>> : k \in checks}
<1> DEFINE Of(k, e) == e.claim = k.claim /\ e.source = k.source
           J(k) == IF \E e \in evaluated : Of(k, e) THEN CHOOSE e \in evaluated : Of(k, e) ELSE k
<1>1. Rows!WithVerdicts(checks, evaluated) = {J(k) : k \in checks}
  BY DEF Rows!WithVerdicts
<1>2. \A k \in checks : J(k).source = k.source /\ J(k).claim = k.claim
  <2> SUFFICES ASSUME NEW k \in checks PROVE J(k).source = k.source /\ J(k).claim = k.claim
    OBVIOUS
  <2>1. CASE \E e \in evaluated : Of(k, e)
    <3>1. Of(k, J(k))
      BY <2>1
    <3> QED BY <3>1
  <2>2. CASE ~\E e \in evaluated : Of(k, e)
    BY <2>2
  <2> QED BY <2>1, <2>2
<1> HIDE DEF J
<1>3. {<<k.claim, k.source>> : k \in {J(k) : k \in checks}} = {<<k.claim, k.source>> : k \in checks}
  BY <1>2
<1>4. Cites(p, {J(k) : k \in checks}) = Cites(p, checks)
  BY <1>2 DEF Cites
<1> QED BY <1>1, <1>3, <1>4

\* What has been read is not changed by a client without a cipher.
LEMMA ReadOnce ==
  ASSUME NEW p, IsPolicy(p), NEW t, NEW u, Agree(p, t, u), TypedTable(t.chunks)
  PROVE  LET read == ReadBack(p, t)
             plain == ReadBack(WithoutCipher(p), u)
         IN  /\ IsTrace(read) /\ IsTrace(plain)
             /\ plain.query = read.query /\ plain.metadata = read.metadata /\ plain.chunks = read.chunks
             /\ plain.answer = read.answer /\ plain.tokens = read.tokens /\ plain.events = read.events
             /\ plain.report = read.report
             /\ {<<k.claim, k.source>> : k \in plain.checks} = {<<k.claim, k.source>> : k \in read.checks}
             /\ read.query = u.query /\ read.metadata = u.metadata /\ read.chunks = u.chunks
             /\ read.answer = u.answer /\ read.tokens = u.tokens /\ read.events = u.events
             /\ read.report = u.report
             /\ {<<k.claim, k.source>> : k \in read.checks} = {<<k.claim, k.source>> : k \in u.checks}
<1> DEFINE c == WithoutCipher(p)
           read == ReadBack(p, t)
           plain == ReadBack(c, u)
<1>1. \A v : Restored(c, v) = v
  BY CipherOff
<1>2. IsTrace(t) /\ IsTrace(u)
  BY DEF Agree
<1> HIDE DEF c
<1>3. /\ IsTrace(read)
      /\ read.query = Restored(p, t.query) /\ read.answer = Restored(p, t.answer)
      /\ read.tokens = t.tokens /\ read.report = t.report
      /\ read.metadata = [key \in DOMAIN t.metadata |-> Restored(p, t.metadata[key])]
      /\ read.chunks = ReadTable(p, t.chunks)
      /\ read.checks = {[claim |-> Restored(p, k.claim), source |-> k.source, status |-> k.status] : k \in t.checks}
      /\ read.events = {ReadEvent(p, event) : event \in t.events}
  BY <1>2, ReadBackFields
<1>4. /\ IsTrace(plain)
      /\ plain.query = Restored(c, u.query) /\ plain.answer = Restored(c, u.answer)
      /\ plain.tokens = u.tokens /\ plain.report = u.report
      /\ plain.metadata = [key \in DOMAIN u.metadata |-> Restored(c, u.metadata[key])]
      /\ plain.chunks = ReadTable(c, u.chunks)
      /\ plain.checks = {[claim |-> Restored(c, k.claim), source |-> k.source, status |-> k.status] : k \in u.checks}
      /\ plain.events = {ReadEvent(c, event) : event \in u.events}
  BY <1>2, ReadBackFields
<1> HIDE DEF read, plain
<1>5. /\ u.query = Restored(p, t.query) /\ u.answer = Restored(p, t.answer)
      /\ u.tokens = t.tokens /\ u.report = t.report
      /\ u.metadata = [key \in DOMAIN t.metadata |-> Restored(p, t.metadata[key])]
      /\ u.chunks = ReadTable(p, t.chunks)
      /\ {<<k.claim, k.source>> : k \in u.checks} = Cites(p, t.checks)
      /\ u.events = {ReadEvent(p, event) : event \in t.events}
  BY DEF Agree
<1>6. plain.metadata = u.metadata
  BY <1>1, <1>4, <1>5
<1>7. plain.chunks = u.chunks
  <2>1. ASSUME NEW id \in Idents PROVE ReadTable(c, u.chunks)[id] = u.chunks[id]
    <3>1. CASE t.chunks[id] = Nothing
      BY <1>5, <3>1 DEF ReadTable
    <3>2. CASE t.chunks[id] # Nothing
      <4>1. t.chunks[id] \in ChunkRow
        BY <3>2 DEF TypedTable
      <4>2. u.chunks[id] = ReadRow(p, t.chunks[id]) /\ u.chunks[id] # Nothing
        BY <1>5, <3>2, <4>1, RowReadTyped DEF ReadTable
      <4>3. ReadTable(c, u.chunks)[id] = ReadRow(c, ReadRow(p, t.chunks[id]))
        BY <4>2 DEF ReadTable
      <4>4. ReadRow(c, ReadRow(p, t.chunks[id])) = ReadRow(p, t.chunks[id])
        BY <1>1 DEF ReadRow
      <4> QED BY <4>2, <4>3, <4>4
    <3> QED BY <3>1, <3>2
  <2>2. /\ ReadTable(c, u.chunks) = [id \in Idents |-> ReadTable(c, u.chunks)[id]]
        /\ u.chunks = [id \in Idents |-> u.chunks[id]]
    BY <1>5 DEF ReadTable
  <2>3. ReadTable(c, u.chunks) = u.chunks
    BY <2>1, <2>2
  <2> QED BY <1>4, <2>3
<1>8. plain.events = u.events
  <2>1. \A event \in t.events : ReadEvent(c, ReadEvent(p, event)) = ReadEvent(p, event)
    BY <1>1 DEF ReadEvent
  <2> QED BY <1>4, <1>5, <2>1
<1>9. {<<k.claim, k.source>> : k \in read.checks} = Cites(p, t.checks)
  <2> DEFINE Read(k) == [claim |-> Restored(p, k.claim), source |-> k.source, status |-> k.status]
  <2>1. read.checks = {Read(k) : k \in t.checks}
    BY <1>3
  <2>2. \A k : Read(k).claim = Restored(p, k.claim) /\ Read(k).source = k.source
    OBVIOUS
  <2> HIDE DEF Read
  <2> QED BY <2>1, <2>2 DEF Cites
<1>10. {<<k.claim, k.source>> : k \in plain.checks} = {<<k.claim, k.source>> : k \in u.checks}
  <2> DEFINE Read(k) == [claim |-> Restored(c, k.claim), source |-> k.source, status |-> k.status]
  <2>1. plain.checks = {Read(k) : k \in u.checks}
    BY <1>4
  <2>2. \A k : Read(k).claim = k.claim /\ Read(k).source = k.source
    BY <1>1
  <2> HIDE DEF Read
  <2> QED BY <2>1, <2>2
<1>11. plain.query = u.query /\ plain.answer = u.answer
  BY <1>1, <1>4
<1> QED BY <1>3, <1>4, <1>5, <1>6, <1>7, <1>8, <1>9, <1>10, <1>11 DEF read, plain, c

LEMMA SavedAgree ==
  ASSUME NEW p, IsPolicy(p), NEW t, NEW u, Agree(p, t, u), TypedTable(t.chunks)
  PROVE  Agree(p, Saved(p, t), Saved(WithoutCipher(p), u))
<1> DEFINE c == WithoutCipher(p)
           readA == ReadBack(p, t)
           readB == ReadBack(c, u)
           A == [readA EXCEPT !.checks = Rows!Evaluated(readA.chunks, @)]
           B == [readB EXCEPT !.checks = Rows!Evaluated(readB.chunks, @)]
           new == Saved(p, t)
           plain == Saved(c, u)
<1>1. /\ new = [t EXCEPT !.checks = Rows!WithVerdicts(@, A.checks), !.report = Assessed(A)]
      /\ plain = [u EXCEPT !.checks = Rows!WithVerdicts(@, B.checks), !.report = Assessed(B)]
  BY DEF Saved, Snapshot
<1>2. B = A
  <2>1. /\ IsTrace(readA) /\ IsTrace(readB)
        /\ readB.query = readA.query /\ readB.metadata = readA.metadata /\ readB.chunks = readA.chunks
        /\ readB.answer = readA.answer /\ readB.tokens = readA.tokens /\ readB.events = readA.events
        /\ readB.report = readA.report
        /\ {<<k.claim, k.source>> : k \in readB.checks} = {<<k.claim, k.source>> : k \in readA.checks}
    BY ReadOnce
  <2> HIDE DEF readA, readB
  <2>2. Rows!Evaluated(readB.chunks, readB.checks) = Rows!Evaluated(readA.chunks, readA.checks)
    BY <2>1, JudgedAlike
  <2>3. /\ IsTrace(A) /\ A.query = readA.query /\ A.answer = readA.answer /\ A.tokens = readA.tokens
        /\ A.report = readA.report /\ A.metadata = readA.metadata /\ A.chunks = readA.chunks
        /\ A.events = readA.events /\ A.checks = Rows!Evaluated(readA.chunks, readA.checks)
    BY <2>1 DEF IsTrace
  <2>4. /\ IsTrace(B) /\ B.query = readB.query /\ B.answer = readB.answer /\ B.tokens = readB.tokens
        /\ B.report = readB.report /\ B.metadata = readB.metadata /\ B.chunks = readB.chunks
        /\ B.events = readB.events /\ B.checks = Rows!Evaluated(readB.chunks, readB.checks)
    BY <2>1 DEF IsTrace
  <2> HIDE DEF A, B
  <2> QED BY <2>1, <2>2, <2>3, <2>4 DEF IsTrace
<1> HIDE DEF A, B
<1> DEFINE report == Assessed(A)
           checksA == Rows!WithVerdicts(t.checks, A.checks)
           checksB == Rows!WithVerdicts(u.checks, A.checks)
<1>3. new = [t EXCEPT !.checks = checksA, !.report = report] /\ plain = [u EXCEPT !.checks = checksB, !.report = report]
  <2> HIDE DEF new, plain
  <2> QED BY <1>1, <1>2
<1>4. Cites(p, checksA) = Cites(p, t.checks)
      /\ {<<k.claim, k.source>> : k \in checksB} = {<<k.claim, k.source>> : k \in u.checks}
  BY CitesStay
<1> HIDE DEF report, checksA, checksB, new, plain
<1>5. /\ IsTrace(new) /\ new.query = t.query /\ new.answer = t.answer /\ new.tokens = t.tokens
      /\ new.report = report /\ new.metadata = t.metadata /\ new.chunks = t.chunks
      /\ new.checks = checksA /\ new.events = t.events
  BY <1>3 DEF Agree, IsTrace
<1>6. /\ IsTrace(plain) /\ plain.query = u.query /\ plain.answer = u.answer /\ plain.tokens = u.tokens
      /\ plain.report = report /\ plain.metadata = u.metadata /\ plain.chunks = u.chunks
      /\ plain.checks = checksB /\ plain.events = u.events
  BY <1>3 DEF Agree, IsTrace
<1>7. Agree(p, new, plain)
  BY <1>4, <1>5, <1>6 DEF Agree
<1> QED BY <1>7 DEF new, plain

\* The settings keep their policy, and a trace agrees with the one that is kept
\* without the cipher.
CipherInv ==
  /\ EdgesInv
  /\ settings.policy \in Policies \cup {Nothing}
  /\ settings = [direct |-> settings.direct, env |-> settings.env, file |-> settings.file,
                 policy |-> settings.policy, patterns |-> settings.patterns, cipher |-> settings.cipher]
  /\ client = "local" /\ session # "new" => Agree(Policy, rows, shadow)

\* A call of an open session on the local client, with the cipher and without it.
LEMMA LogCallKeptBoth ==
  ASSUME NEW call, LogCall(call), client = "local"
  PROVE  /\ rows' = Handled(rows, Sanitized(Policy, call))
         /\ shadow' = Handled(shadow, Sanitized(WithoutCipher(Policy), call))
BY DEF LogCall, Dispatch, KeepLocally

LEMMA CipherStep ==
  ASSUME CipherInv, [SessionNext]_sessionVars
  PROVE  CipherInv'
<1>1. EdgesInv'
  BY EdgesStep DEF CipherInv
<1>2. UNCHANGED settings => Policy' = Policy
  BY DEF Policy
<1>3. IsPolicy(Policy)
  BY PolicyTyped DEF CipherInv, Policy
<1>4. client = "local" /\ session # "new" => TypedTable(rows.chunks) /\ Agree(Policy, rows, shadow)
  BY DEF CipherInv, EdgesInv, Edges
<1>5. ASSUME UNCHANGED <<settings, client>>,
             client = "local" /\ session' # "new" => Agree(Policy, rows', shadow')
      PROVE  CipherInv'
  BY <1>1, <1>2, <1>5 DEF CipherInv
<1>6. ASSUME NEW call, LogCall(call),
             client = "local" /\ session # "new" =>
                Agree(Policy, Handled(rows, Sanitized(Policy, call)),
                              Handled(shadow, Sanitized(WithoutCipher(Policy), call)))
      PROVE  CipherInv'
  <2>1. UNCHANGED <<settings, client, session>> /\ session = "open"
    BY <1>6, LogCallKept
  <2>2. client = "local" => Agree(Policy, rows', shadow')
    BY <1>6, <2>1, LogCallKeptBoth
  <2> QED BY <1>5, <2>1, <2>2
<1>7. CASE InitProject
  <2>1. settings' = [settings EXCEPT !.file = DefaultFile] /\ UNCHANGED <<client, session>> /\ client = "none"
    BY <1>7 DEF InitProject
  <2>2. /\ settings'.policy = settings.policy
        /\ settings' = [direct |-> settings'.direct, env |-> settings'.env, file |-> settings'.file,
                        policy |-> settings'.policy, patterns |-> settings'.patterns,
                        cipher |-> settings'.cipher]
    BY <2>1 DEF CipherInv
  <2> QED BY <1>1, <2>1, <2>2 DEF CipherInv
<1>8. CASE Build
  <2>1. UNCHANGED <<settings, session, rows>> /\ client = "none"
    BY <1>8 DEF Build
  <2>2. session = "new"
    BY <2>1 DEF CipherInv, EdgesInv, SafeInv
  <2> QED BY <1>1, <2>1, <2>2 DEF CipherInv
<1>9. CASE Start
  <2>1. PICK t \in Traces : Dispatch([kind |-> "start", query |-> t.query, metadata |-> t.metadata])
    BY <1>9 DEF Start
  <2>2. UNCHANGED <<settings, client>>
    BY <1>9 DEF Start
  <2>3. client = "local" => Agree(Policy, rows', shadow')
    BY <1>3, <2>1, StartAgree DEF Dispatch, KeepLocally
  <2> QED BY <1>5, <2>2, <2>3
<1>10. CASE Arrive
  <2>1. client # "local" /\ UNCHANGED <<settings, client>>
    BY <1>10 DEF Arrive, CipherInv, EdgesInv, SafeInv
  <2> QED BY <1>5, <2>1
<1>11. CASE LogRetrieval
  <2>1. PICK items \in ChunkLists : LogCall([kind |-> "retrieval", chunks |-> items, ids |-> {}])
    BY <1>11 DEF LogRetrieval
  <2> QED BY <1>3, <1>4, <1>6, <2>1, RetrievalAgree
<1>12. CASE LogContext
  <2>1. PICK items \in ChunkLists, ids \in NameSets : LogCall([kind |-> "context", chunks |-> items, ids |-> ids])
    BY <1>12 DEF LogContext
  <2> QED BY <1>3, <1>4, <1>6, <2>1, ContextAgree
<1>13. CASE LogAnswer
  <2>1. PICK reply \in Replies : LogCall([kind |-> "answer", text |-> reply.text, tokens |-> reply.tokens])
    BY <1>13 DEF LogAnswer
  <2>2. reply.text \in Texts
    BY InputsAssumption
  <2> QED BY <1>3, <1>4, <1>6, <2>1, <2>2, AnswerAgree
<1>14. CASE LogCitations
  <2>1. PICK citations \in CitationSets : LogCall([kind |-> "citations", citations |-> citations])
    BY <1>14 DEF LogCitations
  <2> QED BY <1>3, <1>4, <1>6, <2>1, CitationsAgree
<1>15. CASE LogAgentEvent
  <2>1. PICK event \in AgentEvents : LogCall(EventCall(event))
    BY <1>15 DEF LogAgentEvent
  <2> QED BY <1>3, <1>4, <1>6, <2>1, EventAgree
<1>16. CASE Evaluate
  <2>1. /\ rows' = Saved(Policy, rows) /\ shadow' = Saved(WithoutCipher(Policy), shadow)
        /\ UNCHANGED <<settings, client>> /\ client = "local" /\ session = "open"
    BY <1>16 DEF Evaluate
  <2>2. Agree(Policy, rows', shadow')
    BY <1>3, <1>4, <2>1, SavedAgree
  <2> QED BY <1>5, <2>1, <2>2
<1>17. CASE AskHost
  BY <1>5, <1>17 DEF AskHost
<1>18. CASE UNCHANGED sessionVars
  BY <1>4, <1>5, <1>18 DEF sessionVars
<1> QED
  BY <1>7, <1>8, <1>9, <1>10, <1>11, <1>12, <1>13, <1>14, <1>15, <1>16, <1>17, <1>18 DEF SessionNext

LEMMA CipherInvShows == CipherInv => CipherIsTransparent
<1> SUFFICES ASSUME CipherInv, rows # Nothing
             PROVE  Verdictless(ReadBack(Policy, rows)) = Verdictless(shadow)
  BY DEF CipherIsTransparent
<1> DEFINE p == Policy
           read == ReadBack(p, rows)
           pairs == {<<k.claim, k.source>> : k \in shadow.checks}
<1>1. Agree(p, rows, shadow) /\ TypedTable(rows.chunks)
  BY DEF CipherInv, EdgesInv, SafeInv, Edges
<1>2. IsPolicy(p)
  BY PolicyTyped DEF CipherInv, Policy
<1>3. /\ IsTrace(read) /\ IsTrace(shadow)
      /\ read.query = shadow.query /\ read.metadata = shadow.metadata /\ read.chunks = shadow.chunks
      /\ read.answer = shadow.answer /\ read.tokens = shadow.tokens /\ read.events = shadow.events
      /\ read.report = shadow.report /\ {<<k.claim, k.source>> : k \in read.checks} = pairs
  <2> HIDE DEF p
  <2> QED BY <1>1, <1>2, ReadOnce DEF Agree
<1>4. Verdictless(read) = [read EXCEPT !.checks = pairs] /\ Verdictless(shadow) = [shadow EXCEPT !.checks = pairs]
  <2> HIDE DEF read
  <2> QED BY <1>3 DEF Verdictless
<1> HIDE DEF read, pairs
<1>5. [read EXCEPT !.checks = pairs] = [shadow EXCEPT !.checks = pairs]
  BY <1>3 DEF IsTrace
<1> QED BY <1>4, <1>5 DEF read

LEMMA CipherStarts == SessionInit => CipherInv
<1> SUFFICES ASSUME SessionInit PROVE CipherInv
  OBVIOUS
<1>1. settings \in Settings
  BY InputsAssumption DEF SessionInit
<1>2. EdgesInv
  BY DEF SessionInit, EdgesInv, SafeInv
<1>3. client = "none"
  BY DEF SessionInit
<1>4. /\ settings.policy \in Policies \cup {Nothing}
      /\ settings = [direct |-> settings.direct, env |-> settings.env, file |-> settings.file,
                     policy |-> settings.policy, patterns |-> settings.patterns,
                     cipher |-> settings.cipher]
  BY <1>1 DEF Settings
<1> QED BY <1>2, <1>3, <1>4 DEF CipherInv

\* Whatever a session logs, with whatever policy: read back, the trace in the store
\* is the one a client without the cipher would have stored, and an evaluation of it
\* comes to the same failure and the same score.
THEOREM CipherHides == SessionSpec => []CipherIsTransparent
<1>1. SessionInit => CipherInv
  BY CipherStarts
<1>2. CipherInv /\ [SessionNext]_sessionVars => CipherInv'
  BY CipherStep
<1>3. CipherInv => CipherIsTransparent
  BY CipherInvShows
<1> QED BY <1>1, <1>2, <1>3, PTL DEF SessionSpec

-----------------------------------------------------------------------------
(* Sums over finite sets, as the fold of the community modules has them.   *)

\* A set of natural numbers has a least one.
LEMMA LeastNumber ==
  ASSUME NEW B, B \subseteq Nat, B # {}
  PROVE  \E m \in B : \A k \in B : m <= k
<1>1. PICK m \in B : \A k \in B : <<k, m>> \notin OpToRel(<, Nat)
  BY WFMin, NatLessThanWellFounded, Zenon
<1>2. ASSUME NEW k \in B PROVE m <= k
  <2>1. ~(k < m)
    BY <1>1, Zenon DEF OpToRel
  <2> QED BY <2>1
<1> QED BY <1>2

\* The subsets that a sum over S runs through, and what it adds up: the member it
\* takes out first, and the sum of the rest.
Upto(S, n) == {s \in SUBSET S : Cardinality(s) <= n}
Pick(s) == CHOOSE x \in s : TRUE
IsSum(g, D, h) == h = [s \in D |-> IF s = {} THEN 0 ELSE g[Pick(s)] + h[s \ {Pick(s)}]]

LEMMA Picked ==
  ASSUME NEW S, IsFiniteSet(S), NEW s \in SUBSET S, s # {}
  PROVE  /\ Pick(s) \in s /\ s \ {Pick(s)} \in SUBSET S
         /\ Cardinality(s) \in Nat /\ Cardinality(s \ {Pick(s)}) = Cardinality(s) - 1
<1>1. Pick(s) \in s
  BY DEF Pick
<1>2. IsFiniteSet(s)
  BY FS_Subset
<1> QED BY <1>1, <1>2, FS_RemoveElement, FS_CardinalityType

LEMMA SumExists ==
  ASSUME NEW S, IsFiniteSet(S), NEW g
  PROVE  \A n \in Nat : \E h : IsSum(g, Upto(S, n), h)
<1> DEFINE B == {n \in Nat : ~\E h : IsSum(g, Upto(S, n), h)}
<1>1. SUFFICES ASSUME B # {} PROVE FALSE
  OBVIOUS
<1>2. PICK n \in B : \A k \in B : n <= k
  <2> HIDE DEF B
  <2>1. B \subseteq Nat
    BY DEF B
  <2> QED BY <1>1, <2>1, LeastNumber
<1>3. n \in Nat /\ ~\E h : IsSum(g, Upto(S, n), h)
  OBVIOUS
<1>4. CASE n = 0
  <2> DEFINE h == [s \in Upto(S, 0) |-> 0]
  <2>1. Upto(S, 0) = {{}}
    <3>1. ASSUME NEW s \in SUBSET S, Cardinality(s) <= 0 PROVE s = {}
      BY <3>1, FS_Subset, FS_CardinalityType, FS_EmptySet
    <3>2. Cardinality({}) = 0
      BY FS_EmptySet
    <3> QED BY <3>1, <3>2 DEF Upto
  <2>2. IsSum(g, Upto(S, 0), h)
    BY <2>1 DEF IsSum
  <2> QED BY <1>3, <1>4, <2>2
<1>5. CASE n # 0
  <2>1. n - 1 \in Nat /\ n - 1 \notin B
    BY <1>2, <1>3, <1>5
  <2>2. PICK h : IsSum(g, Upto(S, n - 1), h)
    BY <2>1
  <2> DEFINE w == [s \in Upto(S, n) |-> IF s = {} THEN 0 ELSE g[Pick(s)] + h[s \ {Pick(s)}]]
  <2>3. ASSUME NEW s \in Upto(S, n), s # {} PROVE s \ {Pick(s)} \in Upto(S, n - 1) /\ s \ {Pick(s)} \in Upto(S, n)
    BY <1>3, <2>1, <2>3, Picked DEF Upto
  <2>4. ASSUME NEW s \in Upto(S, n - 1) PROVE w[s] = h[s] /\ s \in Upto(S, n)
    <3>1. s \in Upto(S, n)
      BY <1>3, <2>4, FS_Subset, FS_CardinalityType DEF Upto
    <3>2. h[s] = IF s = {} THEN 0 ELSE g[Pick(s)] + h[s \ {Pick(s)}]
      BY <2>2, <2>4 DEF IsSum
    <3> QED BY <3>1, <3>2
  <2>5. \A s \in Upto(S, n) : s # {} => w[s \ {Pick(s)}] = h[s \ {Pick(s)}]
    BY <2>3, <2>4
  <2>6. w = [s \in Upto(S, n) |-> IF s = {} THEN 0 ELSE g[Pick(s)] + w[s \ {Pick(s)}]]
    <3> DEFINE z == [s \in Upto(S, n) |-> IF s = {} THEN 0 ELSE g[Pick(s)] + w[s \ {Pick(s)}]]
    <3>1. \A s \in Upto(S, n) : w[s] = z[s]
      BY <2>5
    <3> QED BY <3>1
  <2> HIDE DEF w
  <2> QED BY <1>3, <2>6 DEF IsSum
<1> QED BY <1>4, <1>5

\* The sum over a finite set is the value of such a function.
SumOf(g, S) == MapThenSumSet(LAMBDA k : g[k], S)

LEMMA SumIs ==
  ASSUME NEW S, IsFiniteSet(S), NEW g
  PROVE  \E h : IsSum(g, SUBSET S, h) /\ SumOf(g, S) = h[S]
<1> DEFINE F == CHOOSE h : h = [s \in SUBSET S |-> IF s = {} THEN 0
                                  ELSE g[CHOOSE x \in s : TRUE] + h[s \ {CHOOSE x \in s : TRUE}]]
<1>1. SumOf(g, S) = F[S]
  BY DEF SumOf, MapThenSumSet, MapThenFoldSet
<1>2. Cardinality(S) \in Nat /\ Upto(S, Cardinality(S)) = SUBSET S
  BY FS_Subset, FS_CardinalityType DEF Upto
<1>3. \E h : IsSum(g, SUBSET S, h)
  <2> DEFINE n == Cardinality(S)
  <2>1. \A k \in Nat : \E h : IsSum(g, Upto(S, k), h)
    BY SumExists
  <2>2. n \in Nat /\ Upto(S, n) = SUBSET S
    BY <1>2
  <2> HIDE DEF n
  <2>3. \E h : IsSum(g, Upto(S, n), h)
    BY <2>1, <2>2
  <2> QED BY <2>2, <2>3
<1>4. IsSum(g, SUBSET S, F)
  BY <1>3 DEF IsSum, Pick
<1> HIDE DEF F
<1> QED BY <1>1, <1>4

\* A sum of integers is an integer.
LEMMA SumIsInt ==
  ASSUME NEW S, IsFiniteSet(S), NEW g, \A k \in S : g[k] \in Int
  PROVE  SumOf(g, S) \in Int
<1>1. PICK h : IsSum(g, SUBSET S, h) /\ SumOf(g, S) = h[S]
  BY SumIs
<1> DEFINE B == {Cardinality(s) : s \in {u \in SUBSET S : h[u] \notin Int}}
<1>2. ASSUME h[S] \notin Int PROVE FALSE
  <2>1. B \subseteq Nat /\ B # {}
    BY <1>2, FS_Subset, FS_CardinalityType
  <2>2. PICK m \in B : \A k \in B : m <= k
    <3> HIDE DEF B
    <3> QED BY <2>1, LeastNumber
  <2>3. PICK s \in SUBSET S : h[s] \notin Int /\ Cardinality(s) = m
    BY <2>2
  <2>4. h[s] = IF s = {} THEN 0 ELSE g[Pick(s)] + h[s \ {Pick(s)}]
    BY <1>1 DEF IsSum
  <2>5. s # {} /\ h[s \ {Pick(s)}] \notin Int
    <3>1. s # {}
      BY <2>3, <2>4
    <3>2. g[Pick(s)] \in Int
      BY <3>1, Picked
    <3> QED BY <2>3, <2>4, <3>1, <3>2
  <2>6. s \ {Pick(s)} \in SUBSET S /\ Cardinality(s \ {Pick(s)}) = m - 1 /\ m \in Nat
    BY <2>3, <2>5, Picked
  <2>7. m - 1 \in B
    BY <2>5, <2>6
  <2> QED BY <2>2, <2>6, <2>7
<1> QED BY <1>1, <1>2

-----------------------------------------------------------------------------
(* The score and its grade.                                                *)

\* Rounding to the nearer neighbour stays between the bounds of what is rounded.
LEMMA RoundedIs ==
  ASSUME NEW a \in Int, NEW b \in Nat \ {0}
  PROVE  /\ Rounded(a, b) \in Int
         /\ \A c \in Int : a >= c * b => Rounded(a, b) >= c
         /\ \A c \in Int : a < c * b => Rounded(a, b) <= c
<1> DEFINE d == a \div b
           r == a % b
<1>1. d \in Int /\ r \in 0..b-1 /\ a = b * d + r
  OBVIOUS
<1>2. Rounded(a, b) \in {d, d + 1}
  BY DEF Rounded
<1> HIDE DEF d, r
<1>3. ASSUME NEW c \in Int, a >= c * b PROVE d >= c
  <2>1. SUFFICES ASSUME d + 1 <= c PROVE FALSE
    BY <1>1
  <2>2. b * (d + 1) <= b * c
    BY <1>1, <2>1
  <2>3. b * (d + 1) = b * d + b /\ b * c = c * b
    BY <1>1
  <2> QED BY <1>1, <1>3, <2>2, <2>3
<1>4. ASSUME NEW c \in Int, a < c * b PROVE d + 1 <= c
  <2>1. SUFFICES ASSUME c <= d PROVE FALSE
    BY <1>1
  <2>2. b * c <= b * d
    BY <1>1, <2>1
  <2>3. b * c = c * b
    OBVIOUS
  <2> QED BY <1>1, <1>4, <2>2, <2>3
<1> QED BY <1>1, <1>2, <1>3, <1>4

\* A metric that is there counts between 0 and 1, inverted where it counts what went wrong.
LEMMA ClampedIs ==
  ASSUME NEW v, v # Nothing
  PROVE  /\ Clamped(v) \in 0..1000 /\ (v \in 0..1000 => Clamped(v) = v)
         /\ v \in Int => (v >= 800 => Clamped(v) >= 800) /\ (v <= 100 => Clamped(v) <= 100)
                         /\ (v <= 0 => Clamped(v) = 0)
         /\ \A metric \in Metrics :
              Component(metric, v) = IF metric \in {"unsupported", "failures"} THEN 1000 - Clamped(v) ELSE Clamped(v)
<1>1. Clamped(v) = IF v \in 0..1000 THEN v ELSE IF v > 1000 THEN 1000 ELSE 0
  BY DEF Clamped
<1>2. Clamped(v) \in 0..1000
  BY <1>1
<1> QED BY <1>1, <1>2 DEF Component

\* The sums over the metrics, written out.
LEMMA Summed ==
  ASSUME NEW values
  PROVE  /\ Shares(values) = Share(values, "support") + Share(values, "unsupported") + Share(values, "failures")
                               + Share(values, "retrieval") + Share(values, "abstention") + Share(values, "tokens")
         /\ AllPoints(values) = Points(values, "support") + Points(values, "unsupported") + Points(values, "failures")
                               + Points(values, "retrieval") + Points(values, "abstention") + Points(values, "tokens")
BY DEF Shares, AllPoints, OverMetrics, Metrics


\* The points c are those of a metric with the share s.
Of(v, s, c) ==
  /\ 0 <= c /\ c <= 1000 * s
  /\ s # 0 => v # Nothing /\ (Clamped(v) >= 750 => c >= 750 * s)

Sums(values, cs, cu, isFailure, abstained, r, a, k, rc, kc) ==
  /\ Shares(values) = 85 + r + a + k
  /\ AllPoints(values) = 35 * cs + 25 * (1000 - cu) + (IF isFailure THEN 0 ELSE 25000) + rc + kc
  /\ abstained <=> a = 10
  /\ Of(values.retrieval, r, rc) /\ Of(values.tokens, k, kc)

\* The sums of a trace's metrics: support, unsupported claims and failures are always
\* there, what remains of the shares is that of the other three.
LEMMA TraceSums ==
  ASSUME NEW support \in Int, NEW unsupported \in Int, NEW isFailure \in BOOLEAN, NEW abstained \in BOOLEAN,
         NEW retrieval, NEW total,
         NEW values, values = TraceMetrics(support, unsupported, isFailure, abstained, retrieval, total)
  PROVE  \E r \in {0, 10}, a \in {0, 10}, k \in {0, 5}, rc \in Int, kc \in Int :
           Sums(values, Clamped(support), Clamped(unsupported), isFailure, abstained, r, a, k, rc, kc)
<1>1. /\ values.support = support /\ values.unsupported = unsupported
      /\ values.failures = (IF isFailure THEN 1000 ELSE 0)
      /\ values.abstention = (IF abstained THEN 0 ELSE Nothing)
  BY DEF TraceMetrics
<1>2. support # Nothing /\ unsupported # Nothing /\ values.failures # Nothing /\ 0 # Nothing
  BY <1>1, NothingAssumption
<1>3. /\ Share(values, "support") = 35 /\ Points(values, "support") = 35 * Clamped(support)
      /\ Share(values, "unsupported") = 25 /\ Points(values, "unsupported") = 25 * (1000 - Clamped(unsupported))
  BY <1>1, <1>2, ClampedIs DEF Share, Points, Weight, Metrics
<1>4. Share(values, "failures") = 25 /\ Points(values, "failures") = IF isFailure THEN 0 ELSE 25000
  <2>1. Clamped(values.failures) = IF isFailure THEN 1000 ELSE 0
    BY <1>1, <1>2, ClampedIs
  <2>2. Component("failures", values.failures) = 1000 - Clamped(values.failures)
    BY <1>2, ClampedIs DEF Metrics
  <2> QED BY <1>2, <2>1, <2>2 DEF Share, Points, Weight
<1>5. PICK a \in {0, 10} : Share(values, "abstention") = a /\ Points(values, "abstention") = 0 /\ (abstained <=> a = 10)
  <2>1. CASE abstained
    <3>1. Clamped(values.abstention) = 0 /\ values.abstention # Nothing
      BY <1>1, <1>2, <2>1, ClampedIs
    <3>2. Component("abstention", values.abstention) = 0
      BY <3>1, ClampedIs DEF Metrics
    <3>3. Share(values, "abstention") = 10 /\ Points(values, "abstention") = 0
      BY <3>1, <3>2 DEF Share, Points, Weight
    <3> QED BY <2>1, <3>3
  <2>2. CASE ~abstained
    BY <1>1, <2>2 DEF Share, Points
  <2> QED BY <2>1, <2>2
<1>6. PICK r \in {0, 10}, rc \in Int :
        Share(values, "retrieval") = r /\ Points(values, "retrieval") = rc /\ Of(values.retrieval, r, rc)
  <2>1. CASE values.retrieval = Nothing
    <3>1. Share(values, "retrieval") = 0 /\ Points(values, "retrieval") = 0 /\ Of(values.retrieval, 0, 0)
      BY <2>1 DEF Share, Points, Of
    <3> QED BY <3>1
  <2>2. CASE values.retrieval # Nothing
    <3> DEFINE c == Clamped(values.retrieval)
    <3>1. Share(values, "retrieval") = 10 /\ Points(values, "retrieval") = 10 * c /\ c \in 0..1000
      BY <2>2, ClampedIs DEF Share, Points, Weight, Metrics
    <3>2. 10 * c \in Int /\ Of(values.retrieval, 10, 10 * c)
      BY <2>2, <3>1 DEF Of
    <3> HIDE DEF c
    <3> QED BY <3>1, <3>2
  <2> QED BY <2>1, <2>2
<1>7. PICK k \in {0, 5}, kc \in Int :
        Share(values, "tokens") = k /\ Points(values, "tokens") = kc /\ Of(values.tokens, k, kc)
  <2>1. CASE values.tokens = Nothing
    <3>1. Share(values, "tokens") = 0 /\ Points(values, "tokens") = 0 /\ Of(values.tokens, 0, 0)
      BY <2>1 DEF Share, Points, Of
    <3> QED BY <3>1
  <2>2. CASE values.tokens # Nothing
    <3> DEFINE c == Clamped(values.tokens)
    <3>1. Share(values, "tokens") = 5 /\ Points(values, "tokens") = 5 * c /\ c \in 0..1000
      BY <2>2, ClampedIs DEF Share, Points, Weight, Metrics
    <3>2. 5 * c \in Int /\ Of(values.tokens, 5, 5 * c)
      BY <2>2, <3>1 DEF Of
    <3> HIDE DEF c
    <3> QED BY <3>1, <3>2
  <2> QED BY <2>1, <2>2
<1>8. /\ Shares(values) = 35 + 25 + 25 + r + a + k
      /\ AllPoints(values) = 35 * Clamped(support) + 25 * (1000 - Clamped(unsupported))
                               + (IF isFailure THEN 0 ELSE 25000) + rc + 0 + kc
  BY <1>3, <1>4, <1>5, <1>6, <1>7, Summed
<1>9. Clamped(support) \in 0..1000 /\ Clamped(unsupported) \in 0..1000
  BY <1>2, ClampedIs
<1> DEFINE cs == Clamped(support)
           cu == Clamped(unsupported)
           f == IF isFailure THEN 0 ELSE 25000
<1>10. cs \in Int /\ cu \in Int /\ f \in Int
  BY <1>9
<1>11. /\ Shares(values) = 35 + 25 + 25 + r + a + k
       /\ AllPoints(values) = 35 * cs + 25 * (1000 - cu) + f + rc + 0 + kc
  BY <1>8
<1> HIDE DEF cs, cu, f
<1>12. Shares(values) = 85 + r + a + k
  BY <1>11
<1>13. AllPoints(values) = 35 * cs + 25 * (1000 - cu) + f + rc + kc
  BY ONLY <1>10, <1>11, rc \in Int, kc \in Int
<1>14. Sums(values, cs, cu, isFailure, abstained, r, a, k, rc, kc)
  BY <1>5, <1>6, <1>7, <1>12, <1>13 DEF Sums, f
<1> QED BY <1>14 DEF cs, cu

\* The score of such sums, by bounds on the points.
LEMMA ScoreBounds ==
  ASSUME NEW values, Shares(values) \in Nat \ {0}, AllPoints(values) \in Int
  PROVE  /\ Score(values) \in Int
         /\ AllPoints(values) < 890 * Shares(values) => Score(values) <= 89
         /\ AllPoints(values) >= 750 * Shares(values) => Score(values) >= 75
<1> DEFINE b == 10 * Shares(values)
<1>1. b \in Nat \ {0} /\ Score(values) = Rounded(AllPoints(values), b)
  BY DEF Score
<1>2. 890 * Shares(values) = 89 * b /\ 750 * Shares(values) = 75 * b
  OBVIOUS
<1>3. Score(values) \in Int /\ (AllPoints(values) >= 75 * b => Score(values) >= 75)
      /\ (AllPoints(values) < 89 * b => Score(values) <= 89)
  <2> HIDE DEF b
  <2> QED BY <1>1, RoundedIs
<1> HIDE DEF b
<1> QED BY <1>2, <1>3

LEMMA GradeIs ==
  ASSUME NEW score \in Int
  PROVE  /\ score <= 89 => Grade(score) # "A"
         /\ score >= 75 => Grade(score) \in {"A", "B"}
BY DEF Grade

LEMMA GradesOfTraces ==
  ASSUME NEW support \in Int, NEW unsupported \in Int, NEW isFailure \in BOOLEAN, NEW abstained \in BOOLEAN,
         abstained => isFailure, NEW retrieval, NEW total,
         NEW values, values = TraceMetrics(support, unsupported, isFailure, abstained, retrieval, total)
  PROVE  LET report == Reliability(values)  good == report.grade \in {"A", "B"} IN
         /\ isFailure => report.grade # "A" /\ report.weaknesses # {}
         /\ report.weaknesses = {} => good
         /\ ~RunFails(values.support, values.unsupported, values.failures) => good
<1>1. PICK r \in {0, 10}, a \in {0, 10}, k \in {0, 5}, rc \in Int, kc \in Int :
        Sums(values, Clamped(support), Clamped(unsupported), isFailure, abstained, r, a, k, rc, kc)
  BY TraceSums
<1>2. /\ values.support = support /\ values.unsupported = unsupported
      /\ values.failures = (IF isFailure THEN 1000 ELSE 0)
      /\ values.abstention = (IF abstained THEN 0 ELSE Nothing)
  BY DEF TraceMetrics
<1>3. support # Nothing /\ unsupported # Nothing /\ values.failures # Nothing /\ 0 # Nothing
  BY <1>2, NothingAssumption
<1> DEFINE cs == Clamped(support)
           cu == Clamped(unsupported)
           S == Shares(values)
           P == AllPoints(values)
<1>4. cs \in 0..1000 /\ cu \in 0..1000
  BY <1>3, ClampedIs
<1>5. 0 <= rc /\ rc <= 1000 * r /\ 0 <= kc /\ kc <= 1000 * k
  BY <1>1 DEF Sums, Of
<1>6. S = 85 + r + a + k /\ P = 35 * cs + 25 * (1000 - cu) + (IF isFailure THEN 0 ELSE 25000) + rc + kc
  BY <1>1 DEF Sums
<1> HIDE DEF cs, cu, S, P
<1>7. S \in Nat \ {0} /\ P \in Int
  BY <1>4, <1>5, <1>6
<1>8. /\ Score(values) \in Int /\ (P < 890 * S => Score(values) <= 89)
      /\ (P >= 750 * S => Score(values) >= 75)
  BY <1>7, ScoreBounds DEF S, P
<1> DEFINE report == Reliability(values)
<1>9. /\ report.grade = Grade(Score(values))
      /\ report.weaknesses = IF Given(values) = {} THEN {"none available"} ELSE Weaknesses(values)
  BY DEF Reliability
<1>10. /\ Score(values) <= 89 => report.grade # "A"
       /\ Score(values) >= 75 => report.grade \in {"A", "B"}
  BY <1>8, <1>9, GradeIs
<1>11. "support" \in Given(values) /\ "unsupported" \in Given(values) /\ "failures" \in Given(values)
  BY <1>2, <1>3 DEF Given, Metrics
<1>12. report.weaknesses = Weaknesses(values)
  BY <1>9, <1>11
<1> HIDE DEF report
<1>13. ASSUME isFailure PROVE report.grade # "A" /\ report.weaknesses # {}
  <2>1. P < 890 * S
    BY <1>4, <1>5, <1>6, <1>13
  <2>2. Clamped(values.failures) = 1000
    BY <1>2, <1>3, <1>13, ClampedIs
  <2>3. "failures" \notin Strengths(values)
    BY <2>2 DEF Strengths, IsStrong
  <2> QED BY <1>8, <1>10, <1>11, <1>12, <2>1, <2>3 DEF Weaknesses
<1>14. ASSUME report.weaknesses = {} PROVE report.grade \in {"A", "B"}
  <2>1. \A metric \in Given(values) : IsStrong(metric, Clamped(values[metric]))
    BY <1>12, <1>14 DEF Weaknesses, Strengths
  <2>2. cs >= 850 /\ cu <= 100
    BY <1>2, <1>11, <2>1 DEF IsStrong, cs, cu
  <2>3. ~isFailure
    BY <1>13, <1>14
  <2>4. r # 0 => rc >= 750 * r
    <3>1. SUFFICES ASSUME r # 0 PROVE rc >= 750 * r
      OBVIOUS
    <3>2. "retrieval" \in Given(values)
      BY <1>1, <3>1 DEF Sums, Given, Metrics, Of
    <3>3. Clamped(values.retrieval) >= 750
      BY <2>1, <3>2 DEF IsStrong
    <3> QED BY <1>1, <3>1, <3>3 DEF Sums, Of
  <2>5. k # 0 => kc >= 750 * k
    <3>1. SUFFICES ASSUME k # 0 PROVE kc >= 750 * k
      OBVIOUS
    <3>2. "tokens" \in Given(values)
      BY <1>1, <3>1 DEF Sums, Given, Metrics, Of
    <3>3. Clamped(values.tokens) >= 750
      BY <2>1, <3>2 DEF IsStrong
    <3> QED BY <1>1, <3>1, <3>3 DEF Sums, Of
  <2>6. a = 0
    BY <1>1, <2>3 DEF Sums
  <2>7. P >= 750 * S
    BY <1>4, <1>5, <1>6, <2>2, <2>3, <2>4, <2>5, <2>6
  <2> QED BY <1>8, <1>10, <2>7
<1>15. ASSUME ~RunFails(values.support, values.unsupported, values.failures) PROVE report.grade \in {"A", "B"}
  <2>1. support >= 800 /\ unsupported <= 100 /\ ~isFailure
    BY <1>2, <1>15 DEF RunFails
  <2>2. cs >= 800 /\ cu <= 100
    BY <1>3, <2>1, ClampedIs DEF cs, cu
  <2>3. a = 0
    BY <1>1, <2>1 DEF Sums
  <2>4. P >= 750 * S
    BY <1>4, <1>5, <1>6, <2>1, <2>2, <2>3
  <2> QED BY <1>8, <1>10, <2>4
<1> QED BY <1>13, <1>14, <1>15 DEF report

-----------------------------------------------------------------------------
(* The checks of a trace, and what an evaluation of them comes to.         *)

TypedChecks(checks) == IsFiniteSet(checks) /\ \A k \in checks : k.claim \in Values /\ k.source \in Idents

LEMMA ImageFinite ==
  ASSUME NEW S, IsFiniteSet(S), NEW f
  PROVE  IsFiniteSet({f[k] : k \in S})
<1> DEFINE T == {f[k] : k \in S}
           g == [k \in S |-> f[k]]
<1>1. g \in Surjection(S, T)
  BY DEF Surjection
<1> HIDE DEF T, g
<1>2. IsFiniteSet(T)
  BY <1>1, FS_Surjection
<1> QED BY <1>2 DEF T

\* What citations, a client's reading, the verdicts and their storing make of checks.
LEMMA CitationsTyped ==
  ASSUME NEW p, NEW citations \in CitationSets
  PROVE  TypedChecks(Rows!PendingChecks({SafeCitation(p, k) : k \in citations}))
<1> DEFINE Pending(k) == [claim |-> k.claim, source |-> k.source, status |-> "pending"]
           f == [k \in citations |-> Pending(SafeCitation(p, k))]
           new == Rows!PendingChecks({SafeCitation(p, k) : k \in citations})
<1>1. IsFiniteSet(citations) /\ \A k \in citations : k.claim \in Texts /\ k.source \in Names
  BY CitationsAssumption, InputsAssumption
<1>2. ASSUME NEW k \in citations
      PROVE  f[k].claim \in Values /\ f[k].source \in Idents
  <2>1. k.claim \in Texts /\ k.source \in Names /\ "citation_claim" \in Fields
    BY <1>1 DEF Fields
  <2>2. ProtectText(p, "citation_claim", k.claim) \in Values /\ ProtectIdentifier(p, k.source) \in Idents
    BY <2>1, TextTyped, IdentifiersApart
  <2>3. f[k].claim = ProtectText(p, "citation_claim", k.claim) /\ f[k].source = ProtectIdentifier(p, k.source)
    BY DEF SafeCitation
  <2> HIDE DEF f
  <2> QED BY <2>2, <2>3
<1>3. new = {Pending(SafeCitation(p, k)) : k \in citations}
  BY DEF Rows!PendingChecks
<1>4. new = {f[k] : k \in citations}
  <2> HIDE DEF new, Pending
  <2> QED BY <1>3
<1> HIDE DEF new, f
<1>5. IsFiniteSet(new)
  BY <1>1, <1>4, ImageFinite
<1>6. TypedChecks(new)
  BY <1>2, <1>4, <1>5 DEF TypedChecks
<1> QED BY <1>6 DEF new

LEMMA ReadChecksTyped ==
  ASSUME NEW p, NEW checks, TypedChecks(checks)
  PROVE  TypedChecks({[claim |-> Restored(p, k.claim), source |-> k.source, status |-> k.status] : k \in checks})
<1> DEFINE Read(k) == [claim |-> Restored(p, k.claim), source |-> k.source, status |-> k.status]
           f == [k \in checks |-> Read(k)]
           new == {Read(k) : k \in checks}
<1>1. ASSUME NEW k \in checks PROVE f[k].claim \in Values /\ f[k].source \in Idents
  <2>1. Restored(p, k.claim) \in Values /\ k.source \in Idents
    BY RestoredTyped DEF TypedChecks
  <2>2. f[k].claim = Restored(p, k.claim) /\ f[k].source = k.source
    OBVIOUS
  <2> QED BY <2>1, <2>2
<1>2. new = {f[k] : k \in checks}
  <2> HIDE DEF Read
  <2> QED OBVIOUS
<1> HIDE DEF new, f
<1>3. IsFiniteSet(new)
  BY <1>2, ImageFinite DEF TypedChecks
<1>4. TypedChecks(new)
  BY <1>1, <1>2, <1>3 DEF TypedChecks
<1> QED BY <1>4 DEF new

LEMMA EvaluatedTyped ==
  ASSUME NEW table, NEW checks, TypedChecks(checks)
  PROVE  TypedChecks(Rows!Evaluated(table, checks))
<1> DEFINE f == [k \in checks |-> Rows!Judged(table, k)]
           new == Rows!Evaluated(table, checks)
<1>1. ASSUME NEW k \in checks PROVE f[k].claim \in Values /\ f[k].source \in Idents
  <2>1. f[k].claim = k.claim /\ f[k].source = k.source
    BY DEF Rows!Judged
  <2> QED BY <2>1 DEF TypedChecks
<1>2. new = {f[k] : k \in checks}
  BY DEF Rows!Evaluated
<1> HIDE DEF new, f
<1>3. IsFiniteSet(new)
  BY <1>2, ImageFinite DEF TypedChecks
<1>4. TypedChecks(new)
  BY <1>1, <1>2, <1>3 DEF TypedChecks
<1> QED BY <1>4 DEF new

LEMMA VerdictsTyped ==
  ASSUME NEW checks, TypedChecks(checks), NEW evaluated
  PROVE  TypedChecks(Rows!WithVerdicts(checks, evaluated))
<1> DEFINE Same(k, e) == e.claim = k.claim /\ e.source = k.source
           J(k) == IF \E e \in evaluated : Same(k, e) THEN CHOOSE e \in evaluated : Same(k, e) ELSE k
           f == [k \in checks |-> J(k)]
           new == Rows!WithVerdicts(checks, evaluated)
<1>1. ASSUME NEW k \in checks PROVE f[k].claim \in Values /\ f[k].source \in Idents
  <2>1. f[k] = J(k)
    OBVIOUS
  <2>2. CASE \E e \in evaluated : Same(k, e)
    <3>1. Same(k, J(k))
      BY <2>2
    <3> QED BY <2>1, <3>1 DEF TypedChecks
  <2>3. CASE ~\E e \in evaluated : Same(k, e)
    BY <2>1, <2>3 DEF TypedChecks
  <2> QED BY <2>2, <2>3
<1>2. new = {J(k) : k \in checks}
  BY DEF Rows!WithVerdicts
<1>3. new = {f[k] : k \in checks}
  <2> HIDE DEF new, J
  <2> QED BY <1>2
<1> HIDE DEF new, f
<1>4. IsFiniteSet(new)
  BY <1>3, ImageFinite DEF TypedChecks
<1>5. TypedChecks(new)
  BY <1>1, <1>3, <1>4 DEF TypedChecks
<1> QED BY <1>5 DEF new

\* The mean score and the rate of checks are integers.
LEMMA ScoresAreInt ==
  ASSUME NEW t, TypedTable(t.chunks), TypedChecks(t.checks)
  PROVE  CitationSupport(t) \in Int /\ UnsupportedRate(t) \in Int
<1> DEFINE checks == t.checks
           n == Cardinality(checks)
           f == [k \in checks |-> ScoreOf(t, k)]
           unsupported == {k \in checks : k.status = "unsupported"}
<1>1. ASSUME NEW k \in checks PROVE f[k] \in Int
  <2>1. k.claim \in Values /\ k.source \in Idents
    BY DEF TypedChecks
  <2>2. CASE t.chunks[k.source] = Nothing
    BY <2>2 DEF ScoreOf
  <2>3. CASE t.chunks[k.source] # Nothing
    <3> DEFINE claim == k.claim
               text == t.chunks[k.source].content
               x == Overlap[claim][text]
               y == f[k]
    <3>1. t.chunks[k.source] \in ChunkRow
      BY <2>1, <2>3 DEF TypedTable
    <3>2. claim \in Values /\ text \in Values
      BY <2>1, <3>1 DEF ChunkRow
    <3>3. y = x
      <4>1. y = ScoreOf(t, k)
        OBVIOUS
      <4>2. ScoreOf(t, k) = x
        BY <2>3 DEF ScoreOf
      <4> QED BY <4>1, <4>2
    <3> HIDE DEF claim, text, y
    <3>4. x \in 0..1000
      BY <3>2, OverlapAssumption
    <3> HIDE DEF x
    <3>5. y \in Int
      BY <3>3, <3>4
    <3> QED BY <3>5 DEF y
  <2> QED BY <2>2, <2>3
<1>2. IsFiniteSet(checks)
  BY DEF TypedChecks
<1>3. CASE checks = {}
  BY <1>3 DEF CitationSupport, UnsupportedRate
<1>4. CASE checks # {}
  <2> HIDE DEF f, checks
  <2>1. n \in Nat \ {0}
    BY <1>2, <1>4, FS_CardinalityType, FS_EmptySet
  <2>2. IsFiniteSet(unsupported) /\ Cardinality(unsupported) \in Nat
    BY <1>2, FS_Subset, FS_CardinalityType
  <2>3. SumOf(f, checks) \in Int
    BY <1>1, <1>2, SumIsInt
  <2>4. CitationSupport(t) = Rounded(SumOf(f, checks), n)
    BY <1>4 DEF CitationSupport, Mean, SumOf, checks, f
  <2>5. UnsupportedRate(t) = Rounded(1000 * Cardinality(unsupported), n)
    BY <1>4 DEF UnsupportedRate, checks
  <2> DEFINE a == 1000 * Cardinality(unsupported)
  <2>6. a \in Int
    BY <2>2
  <2> HIDE DEF n, unsupported, a
  <2>7. Rounded(SumOf(f, checks), n) \in Int /\ Rounded(a, n) \in Int
    BY <2>1, <2>3, <2>6, RoundedIs
  <2> QED BY <2>4, <2>5, <2>7 DEF a
<1> QED BY <1>3, <1>4

\* What GradeIsExplained says of a report.
Explained(report) ==
  LET good == report.reliability.grade \in {"A", "B"} IN
  /\ report.failure # Failure("no_failure_detected") =>
        report.reliability.grade # "A" /\ report.reliability.weaknesses # {}
  /\ report.reliability.weaknesses = {} => good
  /\ ~RunFails(report.metrics.support, report.metrics.unsupported, report.metrics.failures) =>
        good

LEMMA AssessedExplained ==
  ASSUME NEW t, TypedTable(t.chunks), TypedChecks(t.checks)
  PROVE  Explained(Assessed(t))
<1> DEFINE failure == FailureOf(t)
           isFailure == failure # Failure("no_failure_detected")
           abstained == failure = Failure("should_have_abstained")
           metrics == MetricsOf(t, failure)
<1>1. CitationSupport(t) \in Int /\ UnsupportedRate(t) \in Int
  BY ScoresAreInt
<1>2. abstained => isFailure
  <2>1. Failure("should_have_abstained").form # Failure("no_failure_detected").form
    BY DEF Failure, Value
  <2> HIDE DEF failure
  <2> QED BY <2>1
<1>3. \E retrieval, total :
         metrics = TraceMetrics(CitationSupport(t), UnsupportedRate(t), isFailure, abstained, retrieval, total)
  BY DEF MetricsOf
<1>4. /\ Assessed(t).failure = failure /\ Assessed(t).metrics = metrics
      /\ Assessed(t).reliability = Reliability(metrics)
  BY DEF Assessed
<1> HIDE DEF metrics, failure
<1>5. LET report == Reliability(metrics)  good == report.grade \in {"A", "B"} IN
      /\ isFailure => report.grade # "A" /\ report.weaknesses # {}
      /\ report.weaknesses = {} => good
      /\ ~RunFails(metrics.support, metrics.unsupported, metrics.failures) => good
  <2>1. isFailure \in BOOLEAN /\ abstained \in BOOLEAN
    OBVIOUS
  <2>2. PICK retrieval, total :
         metrics = TraceMetrics(CitationSupport(t), UnsupportedRate(t), isFailure, abstained, retrieval, total)
    BY <1>3
  <2> HIDE DEF isFailure, abstained
  <2> QED BY <1>1, <1>2, <2>1, <2>2, GradesOfTraces
<1> QED BY <1>4, <1>5 DEF Explained

-----------------------------------------------------------------------------
\* A stored trace: its checks can be judged, and its report, if there is one, explains itself.
Graded(t) == TypedChecks(t.checks) /\ (t.report # Nothing => Explained(t.report))

GradeInv ==
  /\ CipherInv
  /\ client = "local" /\ session # "new" => Graded(rows)

\* What each call does to the checks and the report of the trace.
LEMMA StartGraded ==
  ASSUME NEW p, NEW t, NEW old
  PROVE  Graded(Handled(old, Sanitized(p, [kind |-> "start", query |-> t.query, metadata |-> t.metadata])))
<1> DEFINE query == ProtectText(p, "query", t.query)
           metadata == ProtectMetadata(p, t.metadata)
           new == Handled(old, Sanitized(p, [kind |-> "start", query |-> t.query, metadata |-> t.metadata]))
<1>1. new = [NoTrace EXCEPT !.query = query, !.metadata = metadata]
  BY DEF Sanitized, Handled
<1> HIDE DEF new, query, metadata
<1>2. new.checks = {} /\ new.report = Nothing
  BY <1>1 DEF NoTrace
<1>3. Graded(new)
  BY <1>2, FS_EmptySet DEF Graded, TypedChecks
<1> QED BY <1>3 DEF new, query, metadata

LEMMA CitationsGraded ==
  ASSUME NEW p, NEW t, IsTrace(t), Graded(t), NEW citations \in CitationSets
  PROVE  Graded(Handled(t, Sanitized(p, [kind |-> "citations", citations |-> citations])))
<1> DEFINE checks == Rows!PendingChecks({SafeCitation(p, k) : k \in citations})
           new == Handled(t, Sanitized(p, [kind |-> "citations", citations |-> citations]))
<1>1. new = [t EXCEPT !.checks = checks]
  BY DEF Sanitized, Handled
<1>2. TypedChecks(checks)
  BY CitationsTyped
<1> HIDE DEF new, checks
<1>3. new.checks = checks /\ new.report = t.report
  BY <1>1 DEF IsTrace
<1>4. Graded(new)
  BY <1>2, <1>3 DEF Graded
<1> QED BY <1>4 DEF new

\* The calls that leave both alone.
LEMMA OthersGraded ==
  ASSUME NEW p, NEW t, IsTrace(t), Graded(t), NEW call,
         \/ \E items, ids : call = [kind |-> "retrieval", chunks |-> items, ids |-> ids]
         \/ \E items, ids : call = [kind |-> "context", chunks |-> items, ids |-> ids]
         \/ \E text, tokens : call = [kind |-> "answer", text |-> text, tokens |-> tokens]
         \/ \E event : call = EventCall(event)
  PROVE  Graded(Handled(t, Sanitized(p, call)))
<1> DEFINE new == Handled(t, Sanitized(p, call))
<1> SUFFICES new.checks = t.checks /\ new.report = t.report
  BY DEF Graded
<1>1. CASE \E items, ids : call = [kind |-> "retrieval", chunks |-> items, ids |-> ids]
  <2>1. PICK items, ids : call = [kind |-> "retrieval", chunks |-> items, ids |-> ids]
    BY <1>1
  <2> DEFINE table == Upserted(t.chunks, SafeChunks(p, items), FALSE)
  <2>2. new = [t EXCEPT !.chunks = table]
    BY <2>1 DEF Sanitized, Handled
  <2> HIDE DEF new, table
  <2> QED BY <2>2 DEF IsTrace
<1>2. CASE \E items, ids : call = [kind |-> "context", chunks |-> items, ids |-> ids]
  <2>1. PICK items, ids : call = [kind |-> "context", chunks |-> items, ids |-> ids]
    BY <1>2
  <2> DEFINE marked == {ProtectIdentifier(p, name) : name \in ids}
             table == Upserted(Rows!Marked(t.chunks, marked), SafeChunks(p, items), TRUE)
  <2>2. new = [t EXCEPT !.chunks = table]
    BY <2>1 DEF Sanitized, Handled
  <2> HIDE DEF new, table
  <2> QED BY <2>2 DEF IsTrace
<1>3. CASE \E text, tokens : call = [kind |-> "answer", text |-> text, tokens |-> tokens]
  <2>1. PICK text, tokens : call = [kind |-> "answer", text |-> text, tokens |-> tokens]
    BY <1>3
  <2> DEFINE answer == Logged("answer_text", ProtectText(p, "answer_text", text))
  <2>2. new = [t EXCEPT !.answer = answer, !.tokens = tokens]
    BY <2>1 DEF Sanitized, Handled
  <2> HIDE DEF new, answer
  <2> QED BY <2>2 DEF IsTrace
<1>4. CASE \E event : call = EventCall(event)
  <2>1. PICK event : call = EventCall(event)
    BY <1>4
  <2> DEFINE events == t.events \cup {SafeEvent(p, event)}
  <2>2. new = [t EXCEPT !.events = events]
    BY <2>1 DEF Sanitized, Handled, EventCall
  <2> HIDE DEF new, events
  <2> QED BY <2>2 DEF IsTrace
<1> QED BY <1>1, <1>2, <1>3, <1>4

LEMMA SavedGraded ==
  ASSUME NEW p, NEW t, IsTrace(t), Graded(t), TypedTable(t.chunks)
  PROVE  Graded(Saved(p, t))
<1> DEFINE read == ReadBack(p, t)
           judged == [read EXCEPT !.checks = Rows!Evaluated(read.chunks, @)]
           report == Assessed(judged)
           checks == Rows!WithVerdicts(t.checks, judged.checks)
           new == Saved(p, t)
<1>1. new = [t EXCEPT !.checks = checks, !.report = report]
  BY DEF Saved, Snapshot
<1>2. TypedTable(read.chunks) /\ TypedChecks(read.checks) /\ IsTrace(read)
  <2> DEFINE seen == {[claim |-> Restored(p, k.claim), source |-> k.source, status |-> k.status] :
                        k \in t.checks}
  <2>1. IsTrace(read) /\ read.chunks = ReadTable(p, t.chunks) /\ read.checks = seen
    <3>1. /\ IsTrace(read)
          /\ read.query = Restored(p, t.query) /\ read.answer = Restored(p, t.answer)
          /\ read.tokens = t.tokens /\ read.report = t.report
          /\ read.metadata = [key \in DOMAIN t.metadata |-> Restored(p, t.metadata[key])]
          /\ read.chunks = ReadTable(p, t.chunks) /\ read.checks = seen
          /\ read.events = {ReadEvent(p, event) : event \in t.events}
      BY ReadBackFields
    <3> HIDE DEF read, seen
    <3> QED BY <3>1
  <2>2. TypedChecks(seen)
    BY ReadChecksTyped, Zenon DEF Graded
  <2> HIDE DEF read, seen
  <2>3. \A id \in Idents : ReadTable(p, t.chunks)[id] \in ChunkRow \cup {Nothing}
    BY RowReadTyped DEF ReadTable, TypedTable
  <2> QED BY <2>1, <2>2, <2>3 DEF TypedTable
<1> HIDE DEF read
<1>3. judged.chunks = read.chunks /\ judged.checks = Rows!Evaluated(read.chunks, read.checks)
  BY <1>2 DEF IsTrace
<1> HIDE DEF judged
<1>4. TypedTable(judged.chunks) /\ TypedChecks(judged.checks)
  BY <1>2, <1>3, EvaluatedTyped
<1>5. Explained(report)
  BY <1>4, AssessedExplained
<1>6. TypedChecks(checks)
  BY VerdictsTyped DEF Graded
<1> HIDE DEF report, checks, new
<1>7. new.checks = checks /\ new.report = report
  BY <1>1 DEF IsTrace
<1>8. Graded(new)
  BY <1>5, <1>6, <1>7 DEF Graded
<1> QED BY <1>8 DEF new

LEMMA GradeStep ==
  ASSUME GradeInv, [SessionNext]_sessionVars
  PROVE  GradeInv'
<1>1. CipherInv'
  BY CipherStep DEF GradeInv
<1>2. client = "local" /\ session # "new" => TypedTable(rows.chunks) /\ IsTrace(rows) /\ Graded(rows)
  BY DEF GradeInv, CipherInv, EdgesInv, Edges, Agree
<1>3. ASSUME client' = "local" /\ session' # "new" => Graded(rows')
      PROVE  GradeInv'
  BY <1>1, <1>3 DEF GradeInv, Graded, TypedChecks, Explained
<1>4. ASSUME NEW call, LogCall(call),
             client = "local" /\ session # "new" => Graded(Handled(rows, Sanitized(Policy, call)))
      PROVE  GradeInv'
  <2>1. UNCHANGED <<settings, client, session>> /\ session = "open"
    BY <1>4, LogCallKept
  <2>2. client = "local" => Graded(rows')
    BY <1>4, <2>1, LogCallKept
  <2> QED BY <1>3, <2>1, <2>2
<1>5. CASE InitProject
  <2>1. client' # "local"
    BY <1>5 DEF InitProject
  <2> QED BY <1>3, <2>1
<1>6. CASE Build
  <2>1. session' = "new"
    BY <1>6 DEF Build, GradeInv, CipherInv, EdgesInv, SafeInv
  <2> QED BY <1>3, <2>1
<1>7. CASE Start
  <2>1. PICK t \in Traces : Dispatch([kind |-> "start", query |-> t.query, metadata |-> t.metadata])
    BY <1>7 DEF Start
  <2>2. UNCHANGED client
    BY <1>7 DEF Start
  <2>3. client = "local" => Graded(rows')
    BY <2>1, StartGraded DEF Dispatch, KeepLocally
  <2> QED BY <1>3, <2>2, <2>3
<1>8. CASE Arrive
  <2>1. client' # "local"
    BY <1>8 DEF Arrive, GradeInv, CipherInv, EdgesInv, SafeInv
  <2> QED BY <1>3, <2>1
<1>9. CASE LogRetrieval
  <2>1. PICK items \in ChunkLists : LogCall([kind |-> "retrieval", chunks |-> items, ids |-> {}])
    BY <1>9 DEF LogRetrieval
  <2> QED BY <1>2, <1>4, <2>1, OthersGraded
<1>10. CASE LogContext
  <2>1. PICK items \in ChunkLists, ids \in NameSets : LogCall([kind |-> "context", chunks |-> items, ids |-> ids])
    BY <1>10 DEF LogContext
  <2> QED BY <1>2, <1>4, <2>1, OthersGraded
<1>11. CASE LogAnswer
  <2>1. PICK reply \in Replies : LogCall([kind |-> "answer", text |-> reply.text, tokens |-> reply.tokens])
    BY <1>11 DEF LogAnswer
  <2> QED BY <1>2, <1>4, <2>1, OthersGraded
<1>12. CASE LogCitations
  <2>1. PICK citations \in CitationSets : LogCall([kind |-> "citations", citations |-> citations])
    BY <1>12 DEF LogCitations
  <2> QED BY <1>2, <1>4, <2>1, CitationsGraded
<1>13. CASE LogAgentEvent
  <2>1. PICK event \in AgentEvents : LogCall(EventCall(event))
    BY <1>13 DEF LogAgentEvent
  <2> QED BY <1>2, <1>4, <2>1, OthersGraded
<1>14. CASE Evaluate
  <2>1. rows' = Saved(Policy, rows) /\ client = "local" /\ session = "open"
    BY <1>14 DEF Evaluate
  <2>2. Graded(rows')
    BY <1>2, <2>1, SavedGraded
  <2> QED BY <1>3, <2>2
<1>15. CASE AskHost
  <2>1. client' # "local"
    BY <1>15 DEF AskHost
  <2> QED BY <1>3, <2>1
<1>16. CASE UNCHANGED sessionVars
  <2>1. UNCHANGED <<client, session, rows>>
    BY <1>16 DEF sessionVars
  <2> QED BY <1>2, <1>3, <2>1
<1> QED
  BY <1>5, <1>6, <1>7, <1>8, <1>9, <1>10, <1>11, <1>12, <1>13, <1>14, <1>15, <1>16 DEF SessionNext

\* Whatever a session has logged and however it is evaluated: a failure keeps a
\* grade from being an A and is a weakness, and neither a trace without a weakness
\* nor one that passes the thresholds of a run gets less than a B.
THEOREM GradesAreExplained == SessionSpec => []GradeIsExplained
<1>1. SessionInit => GradeInv
  <2> SUFFICES ASSUME SessionInit PROVE GradeInv
    OBVIOUS
  <2>1. CipherInv
    BY CipherStarts
  <2>2. client = "none"
    BY DEF SessionInit
  <2> QED BY <2>1, <2>2 DEF GradeInv
<1>2. GradeInv /\ [SessionNext]_sessionVars => GradeInv'
  BY GradeStep
<1>3. GradeInv => GradeIsExplained
  <2> SUFFICES ASSUME GradeInv, rows # Nothing, rows.report # Nothing PROVE Explained(rows.report)
    BY DEF GradeIsExplained, Explained
  <2>1. client = "local" /\ session # "new"
    BY DEF GradeInv, CipherInv, EdgesInv, SafeInv
  <2> QED BY <2>1 DEF GradeInv, Graded
<1> QED BY <1>1, <1>2, <1>3, PTL DEF SessionSpec
=============================================================================
