---------------------------- MODULE ServicesProofs -----------------------------
(***************************************************************************)
(* What the services promise beside the requests of one trace, for every   *)
(* value of the constants: no first call is lost to a race for the rows it *)
(* makes, a run of a hosted evaluation set that returned is complete, an   *)
(* evaluation of an endpoint has earned how it ended, and the playground   *)
(* answers with its user's own records and misses none it has room for.    *)
(***************************************************************************)
EXTENDS MCServices, FiniteSets, FiniteSetTheorems, SequenceTheorems, WellFoundedInduction, TLAPS

(* First calls (HostedNames).                                              *)

\* A request at row l has passed the rows before it; one whose transport has
\* seen t errors has lost t different rows, so the first t rows are there, and
\* a row it found missing afterwards lies beyond them.
RowsPassed ==
    \A c \in Clients :
        /\ \A l \in Rows : l < level[c] => l \in rows
        /\ \A l \in Rows : l <= tries[c] => l \in rows
        /\ pc[c] = "insert" => tries[c] < level[c]

Raised == \A c \in Clients : pc[c] = "raised" => Retries < Levels

IndInv == TypeOK /\ RowsPassed /\ Raised /\ OneMaker

LEMMA InitHolds == Init => IndInv
BY NamesAssumption DEF Init, IndInv, TypeOK, RowsPassed, Raised, OneMaker, Rows

LEMMA FoundStep == ASSUME IndInv, NEW c \in Clients, Found(c) PROVE IndInv'
<1>1. /\ level[c] \in Rows /\ level[c] \in rows
      /\ level[c] # Levels => level[c] + 1 \in Rows
  BY NamesAssumption DEF IndInv, TypeOK, Found, Rows
<1> USE NamesAssumption, <1>1 DEF IndInv, Found, Passed
<1>2. TypeOK'
  BY DEF TypeOK
<1>3. RowsPassed'
  <2>1. \A l \in Rows : l < level[c] + 1 => l \in rows
    BY DEF RowsPassed, Rows
  <2> QED BY <2>1 DEF RowsPassed, TypeOK
<1>4. Raised' /\ OneMaker'
  BY DEF Raised, OneMaker, TypeOK
<1> QED BY <1>2, <1>3, <1>4

LEMMA MissingStep == ASSUME IndInv, NEW c \in Clients, Missing(c) PROVE IndInv'
<1> USE NamesAssumption DEF IndInv, Missing
<1>1. tries[c] < level[c]
  <2>1. level[c] \in Rows /\ ~(level[c] <= tries[c])
    BY DEF RowsPassed, TypeOK
  <2> QED BY <2>1 DEF TypeOK, Rows
<1>2. TypeOK'
  BY DEF TypeOK
<1>3. RowsPassed'
  BY <1>1 DEF RowsPassed, TypeOK
<1>4. Raised' /\ OneMaker'
  BY DEF Raised, OneMaker, TypeOK
<1> QED BY <1>2, <1>3, <1>4

LEMMA InsertStep == ASSUME IndInv, NEW c \in Clients, Insert(c) PROVE IndInv'
<1> USE NamesAssumption DEF IndInv, Insert
<1>1. TypeOK'
  BY DEF TypeOK
<1>2. RowsPassed'
  BY DEF RowsPassed, TypeOK
<1>3. Raised' /\ OneMaker'
  BY DEF Raised, OneMaker, TypeOK
<1> QED BY <1>1, <1>2, <1>3

LEMMA CommitStep == ASSUME IndInv, NEW c \in Clients, Commit(c) PROVE IndInv'
<1>1. /\ level[c] \in Rows
      /\ level[c] # Levels => level[c] + 1 \in Rows
  BY NamesAssumption DEF IndInv, TypeOK, Rows
<1> USE NamesAssumption, <1>1 DEF IndInv, Commit, Passed
<1>2. TypeOK'
  BY DEF TypeOK
<1>3. RowsPassed'
  <2>1. \A l \in Rows : l < level[c] + 1 => l \in rows'
    BY DEF RowsPassed, Rows
  <2> QED BY <2>1 DEF RowsPassed, TypeOK
<1>4. Raised'
  BY DEF Raised, TypeOK
<1>5. OneMaker'
  <2>1. ASSUME NEW d \in Clients, d # c, pc[d] = "commit" PROVE level[d] # level[c]
    BY <2>1 DEF OneMaker, TypeOK
  <2> QED BY <2>1 DEF OneMaker, TypeOK
<1> QED BY <1>2, <1>3, <1>4, <1>5

LEMMA ConflictStep == ASSUME IndInv, NEW c \in Clients, Conflict(c) PROVE IndInv'
<1>1. /\ level[c] \in Rows /\ tries[c] \in 0..Retries /\ tries[c] < level[c]
      /\ \A l \in Rows : l <= level[c] => l \in rows
  <2>1. level[c] \in Rows /\ tries[c] \in 0..Retries /\ tries[c] < level[c] /\ level[c] \in rows
    BY DEF IndInv, TypeOK, RowsPassed, Conflict
  <2>2. \A l \in Rows : l <= level[c] => l < level[c] \/ l = level[c]
    BY <2>1 DEF Rows
  <2> QED BY <2>1, <2>2 DEF IndInv, RowsPassed
<1>2. CASE tries[c] < Retries
  <2>1. /\ tries' = [tries EXCEPT ![c] = @ + 1] /\ tries[c] + 1 \in 0..Retries
        /\ pc' = [pc EXCEPT ![c] = "select"] /\ level' = [level EXCEPT ![c] = 1]
        /\ rows' = rows /\ inserted' = inserted /\ 1 \in Rows
    BY <1>1, <1>2, NamesAssumption DEF Conflict, Rows
  <2>2. TypeOK'
    BY <2>1 DEF IndInv, TypeOK
  <2>3. \A l \in Rows : l <= tries[c] + 1 => l \in rows
    BY <1>1, NamesAssumption DEF Rows
  <2>4. RowsPassed'
    BY <2>1, <2>3 DEF IndInv, RowsPassed, TypeOK, Rows
  <2>5. Raised' /\ OneMaker'
    BY <2>1 DEF IndInv, Raised, OneMaker, TypeOK
  <2> QED BY <2>2, <2>4, <2>5 DEF IndInv
<1>3. CASE ~(tries[c] < Retries)
  <2>1. /\ pc' = [pc EXCEPT ![c] = "raised"] /\ UNCHANGED <<level, tries, rows, inserted>>
    BY <1>3 DEF Conflict
  <2>2. Retries < Levels
    BY <1>1, <1>3, NamesAssumption DEF Rows
  <2>3. TypeOK' /\ RowsPassed'
    BY <2>1 DEF IndInv, TypeOK, RowsPassed
  <2>4. Raised' /\ OneMaker'
    BY <2>1, <2>2 DEF IndInv, Raised, OneMaker, TypeOK
  <2> QED BY <2>3, <2>4 DEF IndInv
<1> QED BY <1>2, <1>3

LEMMA NextHolds == IndInv /\ [Next]_vars => IndInv'
<1> SUFFICES ASSUME IndInv, [Next]_vars PROVE IndInv'
  OBVIOUS
<1>1. ASSUME NEW c \in Clients, Step(c) PROVE IndInv'
  BY <1>1, FoundStep, MissingStep, InsertStep, CommitStep, ConflictStep DEF Step
<1>2. CASE UNCHANGED vars
  BY <1>2 DEF vars, IndInv, TypeOK, RowsPassed, Raised, OneMaker
<1> QED BY <1>1, <1>2 DEF Next

LEMMA Inductive == Spec => []IndInv
BY InitHolds, NextHolds, PTL DEF Spec

\* With as many retries as there are rows to make, no client's first call is
\* lost to races with the others (start_trace, get_current_user, transport.py).
THEOREM StartsAreKept == Spec => []NoStartIsLost
<1>1. IndInv => NoStartIsLost
  <2>1. Retries >= Levels => ~(Retries < Levels)
    BY NamesAssumption
  <2> QED BY <2>1 DEF IndInv, Raised, NoStartIsLost
<1> QED BY <1>1, Inductive, PTL

\* A row that is being made is made by one request.
THEOREM RowsHaveOneMaker == Spec => []OneMaker
BY Inductive, PTL DEF IndInv

-----------------------------------------------------------------------------
(* Runs of a hosted evaluation set (HostedEvals).                          *)

\* A run at a question: it has a trace that is not evaluated yet.
AtWork == {"chunks", "answer", "citations", "link", "evaluate"}
AtRest == {"idle", "next", "returned", "failed"}

Question == [position : Nat, trace : Nat \cup {None}]
EvalRun == [pc : AtWork \cup AtRest, todo : Nat, at : Nat, trace : Nat \cup {None}, made : SUBSET Nat]

EvalTypes ==
    /\ questions \in Seq(Question)
    /\ traces \in Seq(SUBSET Evals!Parts)
    /\ run \in [Runs -> EvalRun]
    /\ adder \in [Adders -> [pc : {"idle", "insert", "done"}, start : Nat]]

\* The questions a run has linked come first.
LinkedBy(r, i) == i < run[r].at \/ (i = run[r].at /\ run[r].pc \notin AtWork \ {"evaluate"})

\* What a run makes is its own, and is evaluated before the next question is
\* asked, unless the run fails.
RunInv(r) ==
    /\ run[r].at <= run[r].todo /\ run[r].todo <= Len(questions)
    /\ run[r].made \subseteq DOMAIN traces
    /\ run[r].pc = "idle" => run[r].made = {} /\ run[r].todo = 0
    /\ run[r].pc \in AtWork => run[r].at >= 1 /\ run[r].trace \in run[r].made
    /\ run[r].pc = "returned" => run[r].at = run[r].todo
    /\ run[r].pc # "failed" =>
         /\ \A i \in 1..run[r].todo : LinkedBy(r, i) => questions[i].trace # None
         /\ \A t \in run[r].made :
               "report" \in traces[t] \/ (t = run[r].trace /\ run[r].pc \in AtWork)

MadeApart == \A r, s \in Runs : r # s => run[r].made \cap run[s].made = {}

LinksAreMade ==
    \A i \in DOMAIN questions :
        questions[i].trace # None => \E r \in Runs : questions[i].trace \in run[r].made

EvalInv == EvalTypes /\ MadeApart /\ LinksAreMade /\ \A r \in Runs : RunInv(r)

LEMMA EvalsStart == Evals!Init => EvalInv
BY DEF Evals!Init, EvalInv, EvalTypes, MadeApart, LinksAreMade, RunInv, LinkedBy, Question, EvalRun,
       AtWork, AtRest

\* A new question changes nothing for those that are there.
LEMMA AdderStep ==
    ASSUME EvalInv, NEW a \in Adders, Evals!CountQuestions(a) \/ Evals!InsertQuestion(a)
    PROVE  EvalInv'
<1>1. /\ UNCHANGED <<traces, run>> /\ EvalTypes /\ MadeApart /\ LinksAreMade /\ \A r \in Runs : RunInv(r)
  BY DEF Evals!CountQuestions, Evals!InsertQuestion, EvalInv
<1>2. questions \in Seq(Question) /\ Len(questions) \in Nat /\ DOMAIN questions = 1..Len(questions)
  BY <1>1 DEF EvalTypes
<1>3. EvalTypes' /\ questions' \in Seq(Question)
  <2>1. adder' \in [Adders -> [pc : {"idle", "insert", "done"}, start : Nat]]
    <3>1. adder \in [Adders -> [pc : {"idle", "insert", "done"}, start : Nat]]
      BY <1>1 DEF EvalTypes
    <3>2. CASE Evals!CountQuestions(a)
      <4>1. adder' = [adder EXCEPT ![a] = [pc |-> "insert", start |-> Len(questions)]]
        BY <3>2 DEF Evals!CountQuestions
      <4> QED
        BY <1>2, <3>1, <4>1
    <3>3. CASE Evals!InsertQuestion(a)
      <4>1. adder' = [adder EXCEPT ![a].pc = "done"]
        BY <3>3 DEF Evals!InsertQuestion
      <4> QED
        BY <3>1, <4>1
    <3> QED
      BY <3>2, <3>3
  <2>2. adder[a].start \in Nat
    BY <1>1 DEF EvalTypes
  <2>3. [position |-> adder[a].start, trace |-> None] \in Question
    BY <2>2 DEF Question
  <2>4. questions' \in Seq(Question)
    BY <1>2, <2>3 DEF Evals!CountQuestions, Evals!InsertQuestion
  <2> QED
    BY <1>1, <2>1, <2>4 DEF EvalTypes, Evals!Parts
<1>4. /\ Len(questions') \in Nat /\ Len(questions) <= Len(questions')
      /\ \A i \in 1..Len(questions) : questions'[i] = questions[i]
      /\ \A i \in 1..Len(questions') : i \in 1..Len(questions) \/ questions'[i].trace = None
  BY <1>2 DEF Evals!CountQuestions, Evals!InsertQuestion
<1>5. MadeApart' /\ LinksAreMade'
  BY <1>1, <1>2, <1>3, <1>4 DEF MadeApart, LinksAreMade
<1>6. ASSUME NEW r \in Runs PROVE RunInv(r)'
  <2>1. RunInv(r) /\ run[r].todo \in Nat /\ run[r].todo <= Len(questions)
    BY <1>1 DEF EvalTypes, EvalRun, RunInv
  <2>2. \A i \in 1..run[r].todo : questions'[i] = questions[i]
    BY <1>2, <1>4, <2>1
  <2>3. run[r].todo <= Len(questions')
    BY <1>2, <1>4, <2>1
  <2> QED
    BY <1>1, <2>1, <2>2, <2>3 DEF RunInv, LinkedBy
<1> QED
  BY <1>3, <1>5, <1>6 DEF EvalInv
-----------------------------------------------------------------------------
(* The steps of a run.                                                     *)

\* What a run takes over, or makes, is no other run's.
LEMMA OtherRuns ==
    ASSUME EvalInv, EvalTypes', NEW r \in Runs, \A s \in Runs \ {r} : run'[s] = run[s],
           Len(traces) <= Len(traces'), \A t \in DOMAIN traces : traces[t] \subseteq traces'[t],
           Len(questions') = Len(questions),
           \A i \in DOMAIN questions : questions[i].trace # None => questions'[i].trace # None
    PROVE  \A s \in Runs \ {r} : RunInv(s)'
<1> SUFFICES ASSUME NEW s \in Runs \ {r} PROVE RunInv(s)'
  OBVIOUS
<1>1. /\ RunInv(s) /\ run[s] \in EvalRun /\ run'[s] = run[s]
      /\ Len(traces) \in Nat /\ DOMAIN traces = 1..Len(traces)
      /\ Len(traces') \in Nat /\ DOMAIN traces' = 1..Len(traces')
      /\ Len(questions) \in Nat /\ DOMAIN questions = 1..Len(questions)
  BY DEF EvalInv, EvalTypes
<1>2. DOMAIN traces \subseteq DOMAIN traces'
  BY <1>1
<1>3. run[s].made \subseteq DOMAIN traces'
  BY <1>1, <1>2 DEF RunInv
<1>4. \A i \in 1..run[s].todo : i \in DOMAIN questions
  BY <1>1 DEF RunInv, EvalRun
<1>5. \A t \in run[s].made : "report" \in traces[t] => "report" \in traces'[t]
  BY <1>1 DEF RunInv
<1> QED
  BY <1>1, <1>3, <1>4, <1>5 DEF RunInv, LinkedBy

LEMMA BeginRunStep ==
    ASSUME EvalInv, NEW r \in Runs, Evals!BeginRun(r)
    PROVE  EvalInv'
<1>1. /\ UNCHANGED <<questions, traces, adder>> /\ run[r].pc = "idle" /\ run[r] \in EvalRun
      /\ run' = [run EXCEPT ![r] = [run[r] EXCEPT !.pc = "next", !.todo = Len(questions)]]
      /\ EvalTypes /\ MadeApart /\ LinksAreMade /\ RunInv(r)
  BY DEF Evals!BeginRun, EvalInv, EvalTypes
<1>2. Len(questions) \in Nat
  BY <1>1 DEF EvalTypes
<1>3. /\ run'[r].pc = "next" /\ run'[r].todo = Len(questions) /\ run'[r].at = run[r].at
      /\ run'[r].made = run[r].made /\ run'[r] \in EvalRun
      /\ \A s \in Runs \ {r} : run'[s] = run[s]
      /\ run' \in [Runs -> EvalRun]
  BY <1>1, <1>2 DEF EvalTypes, EvalRun, AtRest
<1>4. EvalTypes'
  BY <1>1, <1>3 DEF EvalTypes, Evals!Parts, EvalRun, AtWork, AtRest, Question
<1>5. \A s \in Runs : run'[s].made = run[s].made
  BY <1>3
<1>6. MadeApart' /\ LinksAreMade'
  BY <1>1, <1>5 DEF MadeApart, LinksAreMade
<1>7. RunInv(r)'
  <2>1. run[r].at = 0 /\ run[r].made = {}
    BY <1>1 DEF RunInv, EvalRun
  <2> QED
    BY <1>1, <1>2, <1>3, <2>1 DEF RunInv, LinkedBy, AtWork
<1>8. \A s \in Runs \ {r} : RunInv(s)'
  BY <1>1, <1>2, <1>3, <1>4, OtherRuns DEF EvalTypes
<1> QED
  BY <1>4, <1>6, <1>7, <1>8 DEF EvalInv

LEMMA CallEndpointStep ==
    ASSUME EvalInv, NEW r \in Runs, Evals!CallEndpoint(r)
    PROVE  EvalInv'
<1> DEFINE new == Len(traces) + 1
<1>1. /\ UNCHANGED <<questions, adder>> /\ run[r].pc = "next" /\ run[r].at < run[r].todo
      /\ traces' = Append(traces, {}) /\ run[r] \in EvalRun
      /\ run' = [run EXCEPT ![r] = [@ EXCEPT !.pc = "chunks", !.at = run[r].at + 1, !.trace = new,
                                             !.made = run[r].made \cup {new}]]
      /\ EvalTypes /\ MadeApart /\ LinksAreMade /\ \A s \in Runs : RunInv(s)
  BY DEF Evals!CallEndpoint, EvalInv, EvalTypes
<1>2. /\ Len(traces) \in Nat /\ DOMAIN traces = 1..Len(traces)
      /\ traces \in Seq(SUBSET Evals!Parts) /\ traces' \in Seq(SUBSET Evals!Parts)
      /\ Len(traces') = new /\ DOMAIN traces' = 1..new /\ new \in Nat
      /\ \A t \in DOMAIN traces : traces'[t] = traces[t]
      /\ new \notin DOMAIN traces
  <2>1. traces \in Seq(SUBSET Evals!Parts)
    BY <1>1 DEF EvalTypes
  <2> QED
    BY <1>1, <2>1
<1>3. /\ run'[r].pc = "chunks" /\ run'[r].todo = run[r].todo /\ run'[r].at = run[r].at + 1
      /\ run'[r].made = run[r].made \cup {new} /\ run'[r].trace = new
      /\ run'[r] \in EvalRun /\ run'[r].at >= 1 /\ run[r].at \in Nat /\ run[r].todo \in Nat
      /\ run'[r].at <= run[r].todo
      /\ \A s \in Runs \ {r} : run'[s] = run[s]
      /\ run' \in [Runs -> EvalRun]
  <2> DEFINE next == [run[r] EXCEPT !.pc = "chunks", !.at = run[r].at + 1, !.trace = new,
                                    !.made = run[r].made \cup {new}]
  <2>1. run \in [Runs -> EvalRun] /\ new \in Nat /\ run[r].at \in Nat /\ run[r].todo \in Nat
        /\ run[r].made \in SUBSET Nat
    BY <1>1, <1>2 DEF EvalTypes, EvalRun
  <2>2. run' = [run EXCEPT ![r] = next]
    BY <1>1, Zenon
  <2>3. /\ next.pc = "chunks" /\ next.todo = run[r].todo /\ next.at = run[r].at + 1
        /\ next.made = run[r].made \cup {new} /\ next.trace = new /\ next \in EvalRun
    <3>1. run[r] \in EvalRun /\ "chunks" \in AtWork \cup AtRest
      BY <1>1 DEF AtWork
    <3> HIDE DEF new
    <3>2. run[r].at + 1 \in Nat /\ run[r].made \cup {new} \in SUBSET Nat
      BY <2>1
    <3>3. PICK a : a = run[r].at + 1
      OBVIOUS
    <3>4. PICK m : m = run[r].made \cup {new}
      OBVIOUS
    <3>5. next = [run[r] EXCEPT !.pc = "chunks", !.at = a, !.trace = new, !.made = m]
      BY <3>3, <3>4
    <3>6. a \in Nat /\ m \in SUBSET Nat /\ new \in Nat \cup {None}
      BY <2>1, <3>2, <3>3, <3>4
    <3> HIDE DEF next
    <3>7. /\ next.pc = "chunks" /\ next.todo = run[r].todo /\ next.at = a
          /\ next.made = m /\ next.trace = new
      BY <3>1, <3>5 DEF EvalRun
    <3>8. next \in EvalRun
      BY <3>1, <3>5, <3>6 DEF EvalRun
    <3> QED
      BY <3>3, <3>4, <3>7, <3>8
  <2> HIDE DEF next
  <2>4. run'[r] = next /\ run' \in [Runs -> EvalRun] /\ \A s \in Runs \ {r} : run'[s] = run[s]
    BY <2>1, <2>2, <2>3
  <2> QED
    BY <1>1, <2>1, <2>3, <2>4
<1>4. EvalTypes'
  BY <1>1, <1>2, <1>3 DEF EvalTypes, Evals!Parts, EvalRun, AtWork, AtRest, Question
<1>5. \A s \in Runs : new \notin run[s].made
  BY <1>1, <1>2 DEF RunInv
<1>6. MadeApart' /\ LinksAreMade'
  <2>1. MadeApart'
    BY <1>1, <1>3, <1>5 DEF MadeApart
  <2>2. \A s \in Runs : run[s].made \subseteq run'[s].made
    BY <1>3
  <2> QED
    BY <1>1, <2>1, <2>2 DEF LinksAreMade
<1>7. RunInv(r)'
  <2>1. \A i \in 1..run[r].todo : LinkedBy(r, i)' => LinkedBy(r, i)
    BY <1>1, <1>3 DEF LinkedBy, AtWork
  <2>2. \A t \in run[r].made : "report" \in traces'[t]
    BY <1>1, <1>2 DEF RunInv, AtWork
  <2> HIDE DEF new
  <2>3. run'[r].made \subseteq DOMAIN traces'
    BY <1>1, <1>2, <1>3 DEF RunInv, new
  <2>4. \A t \in run'[r].made : "report" \in traces'[t] \/ t = run'[r].trace
    BY <1>3, <2>2
  <2> QED
    BY <1>1, <1>3, <2>1, <2>3, <2>4 DEF RunInv, AtWork
<1>8. \A s \in Runs \ {r} : RunInv(s)'
  <2>1. Len(traces) <= Len(traces') /\ \A t \in DOMAIN traces : traces[t] \subseteq traces'[t]
    BY <1>2
  <2> QED
    BY <1>1, <1>3, <1>4, <2>1, OtherRuns
<1> QED
  BY <1>4, <1>6, <1>7, <1>8 DEF EvalInv

\* A step of a run keeps the invariant when it keeps what the run says of itself,
\* takes nothing out of a trace, and links to its own traces only.
LEMMA RunMoves ==
    ASSUME EvalInv, EvalTypes', NEW r \in Runs, NEW to \in AtWork \cup AtRest,
           run' = [run EXCEPT ![r] = [run[r] EXCEPT !.pc = to]],
           Len(traces') = Len(traces), \A t \in DOMAIN traces : traces[t] \subseteq traces'[t],
           Len(questions') = Len(questions),
           \A i \in DOMAIN questions :
              \/ questions'[i].trace = questions[i].trace
              \/ questions'[i].trace # None /\ questions'[i].trace \in run[r].made,
           RunInv(r)'
    PROVE  EvalInv'
<1>1. /\ run \in [Runs -> EvalRun] /\ questions \in Seq(Question) /\ questions' \in Seq(Question)
      /\ traces \in Seq(SUBSET Evals!Parts) /\ MadeApart /\ LinksAreMade
  BY DEF EvalInv, EvalTypes
<1>2. /\ \A s \in Runs \ {r} : run'[s] = run[s]
      /\ \A s \in Runs : run'[s].made = run[s].made
  <2>1. run[r] \in EvalRun /\ run'[r] = [run[r] EXCEPT !.pc = to]
    BY <1>1
  <2>2. run'[r].made = run[r].made
    BY <2>1 DEF EvalRun
  <2> QED
    BY <1>1, <2>2
<1>3. MadeApart'
  BY <1>1, <1>2 DEF MadeApart
<1>4. DOMAIN questions' = DOMAIN questions
  BY <1>1
<1>5. LinksAreMade'
  BY <1>1, <1>2, <1>4 DEF LinksAreMade
<1>6. Len(traces) <= Len(traces')
  BY <1>1
<1>7. \A i \in DOMAIN questions : questions[i].trace # None => questions'[i].trace # None
  OBVIOUS
<1>8. \A s \in Runs \ {r} : RunInv(s)'
  BY <1>2, <1>6, <1>7, OtherRuns
<1> QED
  BY <1>3, <1>5, <1>8 DEF EvalInv

\* What Log does to the traces.
LEMMA LogAdds ==
    ASSUME EvalInv, NEW r \in Runs, run[r].pc \in AtWork, NEW part \in Evals!Parts, Evals!Log(r, part)
    PROVE  /\ traces' \in Seq(SUBSET Evals!Parts) /\ Len(traces') = Len(traces)
           /\ \A t \in DOMAIN traces : traces[t] \subseteq traces'[t]
           /\ part \in traces'[run[r].trace] /\ run[r].trace \in DOMAIN traces
           /\ DOMAIN traces' = DOMAIN traces
<1>1. traces \in Seq(SUBSET Evals!Parts) /\ run[r].trace \in DOMAIN traces
  BY DEF EvalInv, EvalTypes, RunInv
<1>2. traces' = [traces EXCEPT ![run[r].trace] = @ \cup {part}]
  BY DEF Evals!Log
<1> QED
  BY <1>1, <1>2

\* The step of a run from one place to the next.
LEMMA AtMoves ==
    ASSUME EvalInv, NEW r \in Runs, NEW from, NEW to \in AtWork \cup AtRest, Evals!At(r, from, to)
    PROVE  /\ run[r].pc = from /\ run' = [run EXCEPT ![r] = [run[r] EXCEPT !.pc = to]]
           /\ run[r] \in EvalRun /\ run'[r] \in EvalRun /\ run'[r].pc = to
           /\ run'[r].at = run[r].at /\ run'[r].todo = run[r].todo /\ run'[r].made = run[r].made
           /\ run'[r].trace = run[r].trace
           /\ run' \in [Runs -> EvalRun]
<1>1. run[r] \in EvalRun /\ run \in [Runs -> EvalRun]
  BY DEF EvalInv, EvalTypes
<1>2. run[r].pc = from /\ run' = [run EXCEPT ![r] = [run[r] EXCEPT !.pc = to]]
  BY DEF Evals!At
<1>3. [run[r] EXCEPT !.pc = to] \in EvalRun
  BY <1>1 DEF EvalRun
<1> QED
  BY <1>1, <1>2, <1>3 DEF EvalRun

\* The answer's parts.
LEMMA PartStep ==
    ASSUME EvalInv, NEW r \in Runs, UNCHANGED <<questions, adder>>,
           NEW from \in {"chunks", "answer", "citations"}, NEW to \in {"answer", "citations", "link"},
           Evals!At(r, from, to),
           NEW part \in {"chunks", "answer", "citations"}, traces' = traces \/ Evals!Log(r, part)
    PROVE  EvalInv'
<1>1. from \in AtWork \ {"evaluate"} /\ to \in AtWork \ {"evaluate"} /\ part \in Evals!Parts
  BY DEF AtWork, Evals!Parts
<1>2. /\ run[r].pc = from /\ run' = [run EXCEPT ![r] = [run[r] EXCEPT !.pc = to]]
      /\ run[r] \in EvalRun /\ run'[r] \in EvalRun /\ run'[r].pc = to
      /\ run'[r].at = run[r].at /\ run'[r].todo = run[r].todo /\ run'[r].made = run[r].made
      /\ run'[r].trace = run[r].trace
      /\ run' \in [Runs -> EvalRun]
  BY <1>1, AtMoves
<1>3. EvalTypes /\ RunInv(r)
  BY DEF EvalInv
<1>4. /\ traces' \in Seq(SUBSET Evals!Parts) /\ Len(traces') = Len(traces)
      /\ \A t \in DOMAIN traces : traces[t] \subseteq traces'[t]
      /\ DOMAIN traces' = DOMAIN traces
  BY <1>1, <1>2, <1>3, LogAdds DEF EvalTypes
<1>5. EvalTypes'
  BY <1>2, <1>3, <1>4 DEF EvalTypes, Evals!Parts, EvalRun, AtWork, AtRest, Question
<1>6. RunInv(r)'
  <2>1. \A i \in 1..run[r].todo : LinkedBy(r, i)' <=> LinkedBy(r, i)
    BY <1>1, <1>2 DEF LinkedBy
  <2>2. \A t \in run[r].made : t \in DOMAIN traces
    BY <1>3 DEF RunInv
  <2>3. \A t \in run[r].made : "report" \in traces'[t] \/ t = run[r].trace
    BY <1>1, <1>2, <1>3, <1>4, <2>2 DEF RunInv, AtWork
  <2> QED
    BY <1>1, <1>2, <1>3, <1>4, <2>1, <2>3 DEF RunInv, AtWork
<1> QED
  BY <1>1, <1>2, <1>4, <1>5, <1>6, RunMoves

LEMMA LinkStep ==
    ASSUME EvalInv, NEW r \in Runs, Evals!Link(r)
    PROVE  EvalInv'
<1>1. /\ run[r].pc = "link" /\ run' = [run EXCEPT ![r] = [run[r] EXCEPT !.pc = "evaluate"]]
      /\ run[r] \in EvalRun /\ run'[r] \in EvalRun /\ run'[r].pc = "evaluate"
      /\ run'[r].at = run[r].at /\ run'[r].todo = run[r].todo /\ run'[r].made = run[r].made
      /\ run'[r].trace = run[r].trace
      /\ run' \in [Runs -> EvalRun]
  BY AtMoves DEF Evals!Link, AtWork
<1>2. EvalTypes /\ RunInv(r)
  BY DEF EvalInv
<1>3. /\ questions \in Seq(Question) /\ traces \in Seq(SUBSET Evals!Parts) /\ traces' = traces
      /\ questions' = [questions EXCEPT ![run[r].at] = [@ EXCEPT !.trace = run[r].trace]]
      /\ adder' = adder
  BY <1>2 DEF EvalTypes, Evals!Link
<1>4. /\ run[r].at \in 1..run[r].todo /\ run[r].todo <= Len(questions) /\ run[r].at \in DOMAIN questions
      /\ run[r].trace \in run[r].made /\ run[r].trace \in DOMAIN traces
      /\ run[r].trace \in Nat /\ run[r].trace # None
  <2>1. /\ run[r].at <= run[r].todo /\ run[r].todo <= Len(questions) /\ run[r].at >= 1
        /\ run[r].trace \in run[r].made /\ run[r].made \subseteq DOMAIN traces
    BY <1>1, <1>2 DEF RunInv, AtWork
  <2>2. run[r].at \in Nat /\ run[r].todo \in Nat /\ Len(questions) \in Nat
        /\ DOMAIN questions = 1..Len(questions) /\ DOMAIN traces = 1..Len(traces) /\ Len(traces) \in Nat
    BY <1>1, <1>3 DEF EvalRun
  <2>3. run[r].at \in 1..run[r].todo /\ run[r].at \in DOMAIN questions
    BY <2>1, <2>2
  <2>4. run[r].trace \in Nat
    BY <2>1, <2>2
  <2> QED
    BY <2>1, <2>3, <2>4, EvalsAssumption
<1>5. /\ questions' \in Seq(Question) /\ Len(questions') = Len(questions)
      /\ DOMAIN questions' = DOMAIN questions
      /\ questions'[run[r].at].trace = run[r].trace
      /\ \A i \in DOMAIN questions : i # run[r].at => questions'[i] = questions[i]
  <2>1. questions[run[r].at] \in Question
    BY <1>3, <1>4
  <2>2. [questions[run[r].at] EXCEPT !.trace = run[r].trace] \in Question
        /\ [questions[run[r].at] EXCEPT !.trace = run[r].trace].trace = run[r].trace
    BY <1>4, <2>1 DEF Question
  <2>3. questions' = [questions EXCEPT ![run[r].at] =
                         [questions[run[r].at] EXCEPT !.trace = run[r].trace]]
    BY <1>3
  <2>4. PICK q : q = [questions[run[r].at] EXCEPT !.trace = run[r].trace]
    OBVIOUS
  <2>5. q \in Question /\ q.trace = run[r].trace /\ questions' = [questions EXCEPT ![run[r].at] = q]
    BY <2>2, <2>3, <2>4
  <2> QED
    BY <1>3, <1>4, <2>5
<1>6. EvalTypes'
  BY <1>1, <1>2, <1>3, <1>5 DEF EvalTypes, Evals!Parts, EvalRun, AtWork, AtRest, Question
<1>7. RunInv(r)'
  <2>1. \A i \in 1..run[r].todo : LinkedBy(r, i)' => LinkedBy(r, i) \/ i = run[r].at
    BY <1>1 DEF LinkedBy
  <2>2. \A i \in 1..run[r].todo : i \in DOMAIN questions
    BY <1>1, <1>3, <1>4 DEF EvalRun
  <2>3. \A i \in 1..run[r].todo : LinkedBy(r, i)' => questions'[i].trace # None
    BY <1>1, <1>2, <1>4, <1>5, <2>1, <2>2 DEF RunInv
  <2> QED
    BY <1>1, <1>2, <1>3, <1>4, <1>5, <2>3 DEF RunInv, AtWork
<1>8. \A i \in DOMAIN questions :
         \/ questions'[i].trace = questions[i].trace
         \/ questions'[i].trace # None /\ questions'[i].trace \in run[r].made
  BY <1>4, <1>5
<1>9. /\ Len(traces') = Len(traces) /\ \A t \in DOMAIN traces : traces[t] \subseteq traces'[t]
      /\ "evaluate" \in AtWork \cup AtRest
  BY <1>3 DEF AtWork
<1> QED
  BY <1>1, <1>5, <1>6, <1>7, <1>8, <1>9, RunMoves

LEMMA EvaluateStep ==
    ASSUME EvalInv, NEW r \in Runs, Evals!Evaluate(r)
    PROVE  EvalInv'
<1>1. /\ run[r].pc = "evaluate" /\ run' = [run EXCEPT ![r] = [run[r] EXCEPT !.pc = "next"]]
      /\ run[r] \in EvalRun /\ run'[r] \in EvalRun /\ run'[r].pc = "next"
      /\ run'[r].at = run[r].at /\ run'[r].todo = run[r].todo /\ run'[r].made = run[r].made
      /\ run'[r].trace = run[r].trace
      /\ run' \in [Runs -> EvalRun]
  BY AtMoves DEF Evals!Evaluate, AtRest
<1>2. EvalTypes /\ RunInv(r) /\ UNCHANGED <<questions, adder>>
  BY DEF EvalInv, Evals!Evaluate
<1>3. /\ traces' \in Seq(SUBSET Evals!Parts) /\ Len(traces') = Len(traces)
      /\ \A t \in DOMAIN traces : traces[t] \subseteq traces'[t]
      /\ "report" \in traces'[run[r].trace]
      /\ DOMAIN traces' = DOMAIN traces
  <2>1. run[r].pc \in AtWork /\ "report" \in Evals!Parts /\ Evals!Log(r, "report")
    BY <1>1 DEF AtWork, Evals!Parts, Evals!Evaluate
  <2> QED
    BY <2>1, LogAdds
<1>4. EvalTypes'
  BY <1>1, <1>2, <1>3 DEF EvalTypes, Evals!Parts, EvalRun, AtWork, AtRest, Question
<1>5. RunInv(r)'
  <2>1. \A i \in 1..run[r].todo : LinkedBy(r, i)' <=> LinkedBy(r, i)
    BY <1>1 DEF LinkedBy, AtWork
  <2>2. \A t \in run[r].made : t \in DOMAIN traces
    BY <1>2 DEF RunInv
  <2>3. \A t \in run[r].made : "report" \in traces'[t]
    BY <1>1, <1>2, <1>3, <2>2 DEF RunInv
  <2> QED
    BY <1>1, <1>2, <1>3, <2>1, <2>3 DEF RunInv, AtWork
<1>6. "next" \in AtWork \cup AtRest /\ \A i \in DOMAIN questions : questions'[i].trace = questions[i].trace
  BY <1>2 DEF AtRest
<1> QED
  BY <1>1, <1>2, <1>3, <1>4, <1>5, <1>6, RunMoves

LEMMA EndStep ==
    ASSUME EvalInv, NEW r \in Runs, Evals!ReturnSummary(r) \/ Evals!Fail(r)
    PROVE  EvalInv'
<1>1. PICK to \in {"returned", "failed"} :
         /\ run' = [run EXCEPT ![r] = [run[r] EXCEPT !.pc = to]]
         /\ to = "returned" => run[r].pc = "next" /\ run[r].at = run[r].todo
  BY DEF Evals!ReturnSummary, Evals!Fail, Evals!At
<1>2. EvalTypes /\ RunInv(r) /\ UNCHANGED <<questions, traces, adder>>
  BY DEF EvalInv, Evals!ReturnSummary, Evals!Fail
<1>3. /\ run[r] \in EvalRun /\ run'[r].pc = to
      /\ run'[r].at = run[r].at /\ run'[r].todo = run[r].todo /\ run'[r].made = run[r].made
      /\ run'[r].trace = run[r].trace
      /\ run' \in [Runs -> EvalRun] /\ to \in AtRest
  <2>1. run[r] \in EvalRun /\ run \in [Runs -> EvalRun]
    BY <1>2 DEF EvalTypes
  <2>2. [run[r] EXCEPT !.pc = to] \in EvalRun
    BY <2>1 DEF EvalRun, AtRest
  <2> QED
    BY <1>1, <2>1, <2>2 DEF EvalRun, AtRest
<1>4. EvalTypes'
  BY <1>2, <1>3 DEF EvalTypes, Evals!Parts, EvalRun, AtWork, AtRest, Question
<1>5. RunInv(r)'
  <2>1. CASE to = "failed"
    BY <1>2, <1>3, <2>1 DEF RunInv, AtWork
  <2>2. CASE to = "returned"
    <3>1. \A i \in 1..run[r].todo : LinkedBy(r, i)' => LinkedBy(r, i)
      BY <1>1, <1>3, <2>2 DEF LinkedBy, AtWork
    <3> QED
      BY <1>1, <1>2, <1>3, <2>2, <3>1 DEF RunInv, AtWork
  <2> QED
    BY <2>1, <2>2
<1>6. /\ Len(traces') = Len(traces) /\ \A t \in DOMAIN traces : traces[t] \subseteq traces'[t]
      /\ Len(questions') = Len(questions)
      /\ \A i \in DOMAIN questions : questions'[i].trace = questions[i].trace
  BY <1>2
<1> QED
  BY <1>1, <1>3, <1>4, <1>5, <1>6, RunMoves

LEMMA EvalsStep ==
    ASSUME EvalInv, [Evals!Next]_(Evals!vars)
    PROVE  EvalInv'
<1>1. CASE UNCHANGED Evals!vars
  BY <1>1 DEF Evals!vars, EvalInv, EvalTypes, MadeApart, LinksAreMade, RunInv, LinkedBy, Evals!Parts
<1>2. CASE \E a \in Adders : Evals!CountQuestions(a) \/ Evals!InsertQuestion(a)
  BY <1>2, AdderStep
<1>3. ASSUME NEW r \in Runs,
             \/ Evals!BeginRun(r) \/ Evals!CallEndpoint(r) \/ Evals!LogChunks(r) \/ Evals!SkipChunks(r)
             \/ Evals!LogAnswer(r) \/ Evals!LogCites(r) \/ Evals!Link(r) \/ Evals!Evaluate(r)
             \/ Evals!ReturnSummary(r) \/ Evals!Fail(r)
      PROVE  EvalInv'
  <2>1. CASE Evals!BeginRun(r)
    BY <2>1, BeginRunStep
  <2>2. CASE Evals!CallEndpoint(r)
    BY <2>2, CallEndpointStep
  <2>3. CASE Evals!LogChunks(r)
    BY <2>3, PartStep DEF Evals!LogChunks
  <2>4. CASE Evals!SkipChunks(r)
    BY <2>4, PartStep DEF Evals!SkipChunks
  <2>5. CASE Evals!LogAnswer(r)
    BY <2>5, PartStep DEF Evals!LogAnswer
  <2>6. CASE Evals!LogCites(r)
    BY <2>6, PartStep DEF Evals!LogCites
  <2>7. CASE Evals!Link(r)
    BY <2>7, LinkStep
  <2>8. CASE Evals!Evaluate(r)
    BY <2>8, EvaluateStep
  <2>9. CASE Evals!ReturnSummary(r) \/ Evals!Fail(r)
    BY <2>9, EndStep
  <2> QED
    BY <1>3, <2>1, <2>2, <2>3, <2>4, <2>5, <2>6, <2>7, <2>8, <2>9
<1> QED
  BY <1>1, <1>2, <1>3 DEF Evals!Next

\* Once nothing runs, a run that returned has its questions linked, and each link
\* leads to a trace of a run that evaluated it or failed.
LEMMA EvalInvIsEnough == ASSUME EvalInv PROVE Evals!ReturnedRunIsComplete
<1> SUFFICES ASSUME NEW r \in Runs, run[r].pc = "returned", Evals!Running = {},
                    NEW i \in 1..run[r].todo
             PROVE  \/ i \in Evals!Evaluated
                    \/ \E s \in Runs : run[s].pc = "failed" /\ questions[i].trace \in run[s].made
  BY DEF Evals!ReturnedRunIsComplete
<1>1. run \in [Runs -> EvalRun] /\ questions \in Seq(Question) /\ RunInv(r) /\ LinksAreMade
  BY DEF EvalInv, EvalTypes
<1>2. i \in DOMAIN questions /\ questions[i].trace # None
  <2>1. run[r] \in EvalRun
    BY <1>1
  <2>2. run[r].todo <= Len(questions) /\ run[r].at = run[r].todo /\ run[r].todo \in Nat /\ i \in Nat
        /\ \A j \in 1..run[r].todo : LinkedBy(r, j) => questions[j].trace # None
    BY <1>1, <2>1 DEF RunInv, EvalRun
  <2>3. LinkedBy(r, i)
    BY <2>2 DEF LinkedBy, AtWork
  <2> QED
    BY <1>1, <2>2, <2>3
<1>3. PICK s \in Runs : questions[i].trace \in run[s].made
  BY <1>1, <1>2 DEF LinksAreMade
<1>4. CASE run[s].pc = "failed"
  BY <1>3, <1>4
<1>5. CASE run[s].pc # "failed"
  <2>1. RunInv(s) /\ run[s].pc \notin AtWork
    BY DEF EvalInv, Evals!Running, AtWork
  <2>2. "report" \in traces[questions[i].trace]
    BY <1>3, <1>5, <2>1 DEF RunInv
  <2> QED
    BY <1>2, <2>2 DEF Evals!Evaluated, Evals!Linked
<1> QED
  BY <1>4, <1>5

\* What run_eval returned has covered every question it loaded: with all runs
\* ended, each of them counts as evaluated in the summary, unless a run that failed
\* took over its link; for every number of runs, adders and questions.
THEOREM ReturnedRunsAreComplete == Evals!Spec => []ReturnedRunIsComplete
<1>1. Evals!Init => EvalInv
  BY EvalsStart
<1>2. EvalInv /\ [Evals!Next]_(Evals!vars) => EvalInv'
  BY EvalsStep
<1>3. EvalInv => ReturnedRunIsComplete
  BY EvalInvIsEnough DEF ReturnedRunIsComplete
<1> QED
  BY <1>1, <1>2, <1>3, PTL DEF Evals!Spec

-----------------------------------------------------------------------------
(* The evaluation of an endpoint (EndpointEvals).                          *)

\* A stage, a trace it started and a result.
Stages == {"load", "next", "start", "evaluate", "report", "gate", "done"}
Trace  == [made : Nat, live : BOOLEAN]
Tested == [entry : Nat, checks : Seq(Nat), error : BOOLEAN,
           support : {Endpoint!Support(c) : c \in Seq(Nat)},
           unsupported : {Endpoint!UnsupportedRate(c) : c \in Seq(Nat)}, failure : BOOLEAN]

\* The types of the evaluation, with the constants as EndpointAssumption has them.
EndpointTypes ==
    /\ setup \in [front : {"eval", "run_evaluation"}, dataset : Datasets,
                  rules : RuleSets, retention : Retentions]
    /\ clock \in Nat /\ stage \in Stages /\ at \in Nat /\ at <= Len(setup.dataset)
    /\ asked \in [error : BOOLEAN, checks : Seq(Nat)]
    /\ started \in Seq(Trace) /\ tested \in Seq(Tested)
    /\ outcome \in {None, "pass", "fail", "raised"} /\ (stage = "done" <=> outcome # None)

\* Between the call of the endpoint and the evaluation the entry at hand is open.
Open == stage \in {"start", "evaluate"}

\* What was tested are the queries passed, in order: one result per entry at most.
ResultsInOrder ==
    /\ Len(tested) <= at
    /\ Open => Len(tested) < at /\ setup.dataset[at] = "query"
    /\ \A k \in DOMAIN tested :
          /\ tested[k].entry \in 1..at /\ setup.dataset[tested[k].entry] = "query"
          /\ Open => tested[k].entry < at
          /\ tested[k].failure = Endpoint!FailureType(tested[k].checks)
          /\ k > 1 => tested[k - 1].entry < tested[k].entry

\* No query that was passed lacks a result, unless the evaluation died of it.
NoneSkipped ==
    outcome # "raised" =>
        \A i \in 1..at : \/ setup.dataset[i] = "blank"
                         \/ i = at /\ Open
                         \/ \E k \in DOMAIN tested : tested[k].entry = i

\* Only a finished dataset comes to the gate, and no rule fires at a green one.
GateDecided ==
    /\ stage \in {"report", "gate"} \/ outcome \in {"pass", "fail"} => at = Len(setup.dataset)
    /\ outcome = "pass" => ~\E rule \in setup.rules : Endpoint!Fires(rule)

\* A trace is only ever gone once it may have expired.
GoneWhenExpired ==
    /\ stage = "evaluate" => Len(started) >= 1
    /\ \A i \in DOMAIN started :
          ~started[i].live =>
              setup.retention # None /\ (setup.retention = 0 \/ clock > setup.retention)

EndpointInv ==
    EndpointTypes /\ ResultsInOrder /\ NoneSkipped /\ GateDecided /\ GoneWhenExpired
        /\ Endpoint!DeathHasCause

LEMMA EndpointStarts == Endpoint!Init => EndpointInv
<1> SUFFICES ASSUME Endpoint!Init PROVE EndpointInv
  OBVIOUS
<1>1. /\ setup \in [front : {"eval", "run_evaluation"}, dataset : Datasets,
                    rules : RuleSets, retention : Retentions]
      /\ clock = 0 /\ stage = "load" /\ at = 0 /\ asked = [error |-> FALSE, checks |-> <<>>]
      /\ started = <<>> /\ tested = <<>> /\ outcome = None
  BY DEF Endpoint!Init
<1>2. setup.dataset \in Seq({"query", "blank"})
  BY <1>1, EndpointAssumption
<1>3. EndpointTypes
  BY <1>1, <1>2, EndpointAssumption DEF EndpointTypes, Stages
<1>4. ResultsInOrder /\ NoneSkipped /\ GateDecided /\ GoneWhenExpired /\ Endpoint!DeathHasCause
  BY <1>1, <1>2, EndpointAssumption DEF ResultsInOrder, NoneSkipped, GateDecided, GoneWhenExpired,
                                        Endpoint!DeathHasCause, Open
<1> QED
  BY <1>3, <1>4 DEF EndpointInv

\* The types of what a step reads.
LEMMA EndpointFields ==
    ASSUME EndpointTypes
    PROVE  /\ setup.dataset \in Seq({"query", "blank"}) /\ Len(setup.dataset) \in Nat
           /\ DOMAIN setup.dataset = 1..Len(setup.dataset)
           /\ \A i \in 1..Len(setup.dataset) : setup.dataset[i] \in {"query", "blank"}
           /\ setup.retention \in Nat \cup {None}
           /\ Len(started) \in Nat /\ DOMAIN started = 1..Len(started)
           /\ \A i \in DOMAIN started : started[i].made \in Nat /\ started[i].live \in BOOLEAN
           /\ Len(tested) \in Nat /\ DOMAIN tested = 1..Len(tested)
           /\ \A k \in DOMAIN tested : tested[k].entry \in Nat /\ tested[k].checks \in Seq(Nat)
                                       /\ tested[k].error \in BOOLEAN /\ tested[k].failure \in BOOLEAN
<1>1. setup.dataset \in Datasets /\ setup.retention \in Retentions
  BY DEF EndpointTypes
<1>2. setup.dataset \in Seq({"query", "blank"}) /\ setup.retention \in Nat \cup {None}
  BY <1>1, EndpointAssumption
<1>3. started \in Seq(Trace) /\ tested \in Seq(Tested)
  BY DEF EndpointTypes
<1>4. \A i \in DOMAIN started : started[i] \in Trace
  BY <1>3
<1>5. \A k \in DOMAIN tested : tested[k] \in Tested
  BY <1>3
<1>6. \A i \in DOMAIN started : started[i].made \in Nat /\ started[i].live \in BOOLEAN
  BY <1>4 DEF Trace
<1>7. \A k \in DOMAIN tested : tested[k].entry \in Nat /\ tested[k].checks \in Seq(Nat)
                               /\ tested[k].error \in BOOLEAN /\ tested[k].failure \in BOOLEAN
  BY <1>5 DEF Tested
<1> QED
  BY <1>2, <1>3, <1>6, <1>7

\* One failure among fewer than 2000 questions shows in the rate.
LEMMA FailureShows ==
    ASSUME NEW c \in Nat, NEW n \in Nat, n >= 1, n < 2000, c >= 1
    PROVE  Endpoint!Share(c, n) > 0
<1>1. ASSUME NEW a \in Nat, NEW b \in Nat, b > 0, a >= b PROVE a \div b > 0
  BY <1>1, SMT
<1>2. 2 * (1000 * c) + n \in Nat /\ 2 * n \in Nat /\ 2 * n > 0 /\ 2 * (1000 * c) + n >= 2 * n
  OBVIOUS
<1> QED
  BY <1>1, <1>2 DEF Endpoint!Share, Endpoint!Rounded

\* A step that tests nothing, at an entry that is not passed by it.
LEMMA SameEntry ==
    ASSUME EndpointInv, stage # "done", UNCHANGED <<setup, at, tested>>, EndpointTypes',
           stage' \in {"start", "evaluate"} <=> Open, stage' \in {"report", "gate"} => at = Len(setup.dataset),
           outcome' \in {"pass", "fail"} => at = Len(setup.dataset),
           outcome' = "pass" => ~\E rule \in setup.rules : Endpoint!Fires(rule),
           GoneWhenExpired', Endpoint!DeathHasCause'
    PROVE  EndpointInv'
<1>1. ResultsInOrder /\ NoneSkipped /\ outcome = None
  BY DEF EndpointInv, EndpointTypes
<1>2. Open' <=> Open
  BY DEF Open
<1>3. ResultsInOrder'
  BY <1>1, <1>2 DEF ResultsInOrder, Endpoint!FailureType
<1>4. NoneSkipped'
  BY <1>1, <1>2, EndpointAssumption DEF NoneSkipped
<1>5. \A rule : Endpoint!Fires(rule)' <=> Endpoint!Fires(rule)
  BY DEF Endpoint!Fires, Endpoint!Metrics, Endpoint!Failures, Endpoint!Column
<1>6. GateDecided'
  BY <1>5 DEF GateDecided
<1> QED
  BY <1>3, <1>4, <1>6 DEF EndpointInv

\* The Cardinality an instance brings is that of FiniteSets.
LEMMA SameCardinality == \A S : Endpoint!Cardinality(S) = Cardinality(S)
BY Zenon DEF Endpoint!Cardinality, Cardinality, Endpoint!IsFiniteSet, IsFiniteSet

\* A query of the dataset that is refused is not one.
LEMMA BlankIsNoQuery ==
    ASSUME EndpointTypes, NEW i \in DOMAIN setup.dataset, setup.dataset[i] = "blank"
    PROVE  Cardinality(Endpoint!QueryEntries) < Len(setup.dataset)
<1> DEFINE n == Len(setup.dataset)  Q == Endpoint!QueryEntries
<1>1. n \in Nat /\ DOMAIN setup.dataset = 1..n
  BY EndpointFields
<1>2. IsFiniteSet(1..n) /\ Cardinality(1..n) = n
  <2>1. /\ IsFiniteSet(1..n) /\ Cardinality(1..n) = IF 1 > n THEN 0 ELSE n - 1 + 1
    BY <1>1, FS_Interval
  <2> QED
    BY <1>1, <2>1
<1>3. Q \in SUBSET (1..n) /\ i \in 1..n /\ i \notin Q
  BY <1>1 DEF Endpoint!QueryEntries
<1>4. /\ Cardinality(Q) <= Cardinality(1..n) /\ (Cardinality(Q) = Cardinality(1..n) => Q = 1..n)
      /\ IsFiniteSet(Q)
  BY <1>2, <1>3, FS_Subset
<1>5. Cardinality(Q) \in Nat
  BY <1>4, FS_CardinalityType
<1> QED
  BY <1>1, <1>2, <1>3, <1>4, <1>5

LEMMA LoadStep == ASSUME EndpointInv, Endpoint!Load PROVE EndpointInv'
<1>1. /\ stage = "load" /\ UNCHANGED <<setup, clock, at, asked, started, tested>> /\ EndpointTypes
      /\ outcome = None
      /\ \/ /\ stage' = "done" /\ outcome' = "raised" /\ setup.front = "run_evaluation"
            /\ \E i \in DOMAIN setup.dataset : setup.dataset[i] = "blank"
         \/ stage' = "next" /\ outcome' = outcome
  BY DEF EndpointInv, EndpointTypes, Endpoint!Load, Endpoint!Raise, Endpoint!Goto
<1>2. EndpointTypes'
  BY <1>1, EndpointAssumption DEF EndpointTypes, Stages, Trace
<1>3. GoneWhenExpired'
  BY <1>1 DEF EndpointInv, GoneWhenExpired
<1>4. Endpoint!DeathHasCause'
  <2>1. outcome' = "raised" =>
            setup.front = "run_evaluation" /\ Cardinality(Endpoint!QueryEntries) < Len(setup.dataset)
    BY <1>1, BlankIsNoQuery, EndpointAssumption
  <2>2. /\ (Cardinality(Endpoint!QueryEntries) < Len(setup.dataset))' <=> Cardinality(Endpoint!QueryEntries) < Len(setup.dataset)
        /\ Endpoint!Cardinality(Endpoint!QueryEntries') = Cardinality(Endpoint!QueryEntries')
    BY <1>1, SameCardinality DEF Endpoint!QueryEntries
  <2>3. setup'.front = setup.front
    BY <1>1
  <2> QED
    BY <2>1, <2>2, <2>3 DEF Endpoint!DeathHasCause
<1> QED
  BY <1>1, <1>2, <1>3, <1>4, SameEntry, EndpointAssumption DEF Open

LEMMA SkipBlankStep == ASSUME EndpointInv, Endpoint!SkipBlank PROVE EndpointInv'
<1>1. /\ stage = "next" /\ at < Len(setup.dataset) /\ setup.dataset[at + 1] = "blank" /\ at' = at + 1
      /\ UNCHANGED <<setup, clock, stage, asked, started, tested, outcome>>
      /\ EndpointTypes /\ ResultsInOrder /\ NoneSkipped /\ GateDecided /\ GoneWhenExpired
      /\ Endpoint!DeathHasCause /\ outcome = None
  BY DEF EndpointInv, EndpointTypes, Endpoint!SkipBlank
<1>2. at \in Nat /\ Len(setup.dataset) \in Nat /\ Len(tested) \in Nat /\ DOMAIN tested = 1..Len(tested)
  BY <1>1, EndpointFields DEF EndpointTypes
<1>3. EndpointTypes'
  BY <1>1, <1>2 DEF EndpointTypes, Stages, Trace
<1>4. ResultsInOrder'
  BY <1>1, <1>2 DEF ResultsInOrder, Open, Endpoint!FailureType
<1>5. NoneSkipped'
  <2>1. \A i \in 1..at' : i \in 1..at \/ setup.dataset[i] = "blank"
    BY <1>1, <1>2
  <2> QED
    BY <1>1, <2>1, EndpointAssumption DEF NoneSkipped, Open
<1>6. GateDecided' /\ GoneWhenExpired' /\ Endpoint!DeathHasCause'
  BY <1>1, EndpointAssumption DEF GateDecided, GoneWhenExpired, Endpoint!DeathHasCause
<1> QED
  BY <1>3, <1>4, <1>5, <1>6 DEF EndpointInv

LEMMA AskStep == ASSUME EndpointInv, Endpoint!Ask PROVE EndpointInv'
<1>1. /\ stage = "next" /\ at < Len(setup.dataset) /\ setup.dataset[at + 1] = "query" /\ at' = at + 1
      /\ asked' \in Endpoint!Replies /\ UNCHANGED <<setup, clock, started, tested, listed>>
      /\ \/ stage' = "done" /\ outcome' = "raised" /\ asked'.error
         \/ stage' = "start" /\ outcome' = outcome
      /\ EndpointTypes /\ ResultsInOrder /\ NoneSkipped /\ GateDecided /\ GoneWhenExpired
      /\ outcome = None
  BY DEF EndpointInv, EndpointTypes, Endpoint!Ask, Endpoint!Raise, Endpoint!Goto
<1>2. at \in Nat /\ Len(setup.dataset) \in Nat /\ Len(tested) \in Nat /\ DOMAIN tested = 1..Len(tested)
  BY <1>1, EndpointFields DEF EndpointTypes
<1>3. EndpointTypes'
  <2>1. asked' \in [error : BOOLEAN, checks : Seq(Nat)]
    <3>1. <<>> \in Seq(Nat)
      OBVIOUS
    <3>2. asked' = [error |-> TRUE, checks |-> <<>>] \/ asked' \in [error : {FALSE}, checks : Answers]
      BY <1>1 DEF Endpoint!Replies, Endpoint!NoAnswer
    <3>3. CASE asked' = [error |-> TRUE, checks |-> <<>>]
      BY <3>1, <3>3
    <3>4. CASE asked' \in [error : {FALSE}, checks : Answers]
      BY <3>4, EndpointAssumption
    <3> QED
      BY <3>2, <3>3, <3>4
  <2> QED
    BY <1>1, <1>2, <2>1, EndpointAssumption DEF EndpointTypes, Stages, Trace
<1>4. ResultsInOrder'
  BY <1>1, <1>2 DEF ResultsInOrder, Open, Endpoint!FailureType
<1>5. NoneSkipped'
  <2>1. \A i \in 1..at' : i \in 1..at \/ i = at'
    BY <1>1, <1>2
  <2>2. \A i \in 1..at : \/ setup.dataset[i] = "blank"
                         \/ \E k \in DOMAIN tested : tested[k].entry = i
    BY <1>1, EndpointAssumption DEF NoneSkipped, Open
  <2>3. outcome' # "raised" => Open'
    BY <1>1 DEF Open
  <2> QED
    BY <1>1, <2>1, <2>2, <2>3 DEF NoneSkipped
<1>6. GateDecided' /\ GoneWhenExpired' /\ Endpoint!DeathHasCause'
  BY <1>1, EndpointAssumption DEF GateDecided, GoneWhenExpired, Endpoint!DeathHasCause
<1> QED
  BY <1>3, <1>4, <1>5, <1>6 DEF EndpointInv

\* What a cleanup takes has expired.
LEMMA CleanedKeeps ==
    ASSUME EndpointTypes, GoneWhenExpired
    PROVE  /\ Endpoint!Cleaned(clock) \in Seq(Trace) /\ Len(Endpoint!Cleaned(clock)) = Len(started)
           /\ \A i \in DOMAIN Endpoint!Cleaned(clock) :
                 ~Endpoint!Cleaned(clock)[i].live =>
                     setup.retention # None /\ (setup.retention = 0 \/ clock > setup.retention)
<1> DEFINE C == Endpoint!Cleaned(clock)
<1>1. /\ Len(started) \in Nat /\ DOMAIN started = 1..Len(started) /\ started \in Seq(Trace)
      /\ clock \in Nat /\ setup.retention \in Nat \cup {None}
      /\ \A i \in DOMAIN started : started[i] \in Trace /\ started[i].made \in Nat
  BY EndpointFields DEF EndpointTypes
<1>2. C = [i \in 1..Len(started) |->
              [started[i] EXCEPT !.live = started[i].live /\ ~Endpoint!Expired(started[i], clock)]]
  BY <1>1 DEF Endpoint!Cleaned
<1>3. ASSUME NEW i \in 1..Len(started) PROVE C[i] \in Trace
  <2>1. PICK b : b = (started[i].live /\ ~Endpoint!Expired(started[i], clock))
    OBVIOUS
  <2>2. b \in BOOLEAN
    BY <2>1, Zenon
  <2>3. C[i] = [started[i] EXCEPT !.live = b]
    BY <1>2, <1>3, <2>1, Zenon
  <2> QED
    BY <1>1, <2>2, <2>3 DEF Trace
<1>4. C \in Seq(Trace) /\ Len(C) = Len(started) /\ DOMAIN C = 1..Len(started)
  BY <1>1, <1>2, <1>3
<1>5. ASSUME NEW i \in 1..Len(started), ~C[i].live
      PROVE  setup.retention # None /\ (setup.retention = 0 \/ clock > setup.retention)
  <2>1. started[i] \in Trace /\ started[i].made \in Nat
    BY <1>1
  <2>2. ~started[i].live \/ Endpoint!Expired(started[i], clock)
    BY <1>2, <1>5, <2>1 DEF Trace
  <2>3. CASE ~started[i].live
    BY <1>1, <2>3 DEF GoneWhenExpired
  <2>4. CASE Endpoint!Expired(started[i], clock)
    BY <1>1, <2>1, <2>4 DEF Endpoint!Expired
  <2> QED
    BY <2>2, <2>3, <2>4
<1> QED
  BY <1>4, <1>5

LEMMA StartTraceStep == ASSUME EndpointInv, Endpoint!StartTrace PROVE EndpointInv'
<1>1. /\ stage = "start" /\ stage' = "evaluate" /\ outcome' = outcome
      /\ started' = Append(Endpoint!Cleaned(clock), [made |-> clock, live |-> TRUE])
      /\ UNCHANGED <<setup, clock, at, asked, tested>>
      /\ EndpointTypes /\ GoneWhenExpired /\ Endpoint!DeathHasCause /\ outcome = None /\ clock \in Nat
  BY DEF EndpointInv, EndpointTypes, Endpoint!StartTrace, Endpoint!Goto
<1>2. PICK C : C = Endpoint!Cleaned(clock)
  OBVIOUS
<1>3. PICK new : new = [made |-> clock, live |-> TRUE]
  OBVIOUS
<1>4. /\ C \in Seq(Trace) /\ Len(C) \in Nat /\ new \in Trace /\ new.live
      /\ \A i \in DOMAIN C : ~C[i].live =>
            setup.retention # None /\ (setup.retention = 0 \/ clock > setup.retention)
  BY <1>1, <1>2, <1>3, CleanedKeeps DEF Trace
<1>5. started' = Append(C, new)
  BY <1>1, <1>2, <1>3
<1>6. /\ started' \in Seq(Trace) /\ Len(started') = Len(C) + 1
      /\ \A i \in DOMAIN started' : started'[i] = new \/ (i \in DOMAIN C /\ started'[i] = C[i])
  BY <1>4, <1>5
<1>7. GoneWhenExpired'
  BY <1>1, <1>4, <1>6 DEF GoneWhenExpired
<1>8. EndpointTypes'
  BY <1>1, <1>6 DEF EndpointTypes, Stages, Trace
<1>9. Endpoint!DeathHasCause'
  BY <1>1, EndpointAssumption DEF Endpoint!DeathHasCause
<1> QED
  BY <1>1, <1>7, <1>8, <1>9, SameEntry, EndpointAssumption DEF Open

LEMMA EvaluateDoes == ASSUME EndpointInv, Endpoint!Evaluate PROVE EndpointInv'
<1>1. /\ stage = "evaluate" /\ UNCHANGED <<setup, clock, at, asked, started>>
      /\ EndpointTypes /\ ResultsInOrder /\ NoneSkipped /\ GoneWhenExpired /\ Endpoint!DeathHasCause
      /\ outcome = None /\ Open
  BY DEF EndpointInv, EndpointTypes, Endpoint!Evaluate, Open
<1>2. /\ at \in Nat /\ Len(setup.dataset) \in Nat /\ Len(tested) \in Nat /\ DOMAIN tested = 1..Len(tested)
      /\ tested \in Seq(Tested) /\ DOMAIN started = 1..Len(started) /\ Len(started) \in Nat
      /\ Len(started) >= 1 /\ at <= Len(setup.dataset)
  BY <1>1, EndpointFields DEF EndpointTypes, GoneWhenExpired
<1>3. GoneWhenExpired'
  <2>1. stage' # "evaluate"
    BY DEF Endpoint!Evaluate, Endpoint!Raise, Endpoint!Goto
  <2> QED
    BY <1>1, <2>1 DEF GoneWhenExpired
<1>4. CASE ~started[Len(started)].live
  <2>1. stage' = "done" /\ outcome' = "raised" /\ tested' = tested
    BY <1>4 DEF Endpoint!Evaluate, Endpoint!Raise
  <2>2. setup.retention # None /\ (setup.retention = 0 \/ clock > setup.retention)
    BY <1>1, <1>2, <1>4 DEF GoneWhenExpired
  <2>3. EndpointTypes'
    BY <1>1, <2>1, EndpointAssumption DEF EndpointTypes, Stages, Trace
  <2>4. ResultsInOrder' /\ NoneSkipped' /\ GateDecided'
    BY <1>1, <2>1 DEF ResultsInOrder, NoneSkipped, GateDecided, Open, Endpoint!FailureType
  <2>5. Endpoint!DeathHasCause'
    BY <1>1, <2>2 DEF Endpoint!DeathHasCause
  <2> QED
    BY <1>3, <2>3, <2>4, <2>5 DEF EndpointInv
<1>5. CASE started[Len(started)].live
  <2>1. PICK new : new =
            [entry |-> at, checks |-> asked.checks, error |-> asked.error,
             support |-> Endpoint!Support(asked.checks),
             unsupported |-> Endpoint!UnsupportedRate(asked.checks),
             failure |-> Endpoint!FailureType(asked.checks)]
    OBVIOUS
  <2>2. tested' = Append(tested, new) /\ stage' = "next" /\ outcome' = outcome
    BY <1>5, <2>1 DEF Endpoint!Evaluate, Endpoint!Goto
  <2>3. asked.checks \in Seq(Nat) /\ asked.error \in BOOLEAN
    BY <1>1 DEF EndpointTypes
  <2>4. Endpoint!FailureType(asked.checks) \in BOOLEAN
    BY Zenon DEF Endpoint!FailureType
  <2>5. new \in Tested /\ new.entry = at /\ new.failure = Endpoint!FailureType(new.checks)
    <3>1. PICK s : s = Endpoint!Support(asked.checks)
      OBVIOUS
    <3>2. PICK u : u = Endpoint!UnsupportedRate(asked.checks)
      OBVIOUS
    <3>3. PICK f : f = Endpoint!FailureType(asked.checks)
      OBVIOUS
    <3>4. s \in {Endpoint!Support(c) : c \in Seq(Nat)} /\ u \in {Endpoint!UnsupportedRate(c) : c \in Seq(Nat)}
      BY <2>3, <3>1, <3>2
    <3>5. f \in BOOLEAN
      BY <2>4, <3>3, Zenon
    <3>6. new = [entry |-> at, checks |-> asked.checks, error |-> asked.error,
                 support |-> s, unsupported |-> u, failure |-> f]
      BY <2>1, <3>1, <3>2, <3>3, Zenon
    <3>7. new \in Tested
      BY <1>2, <2>3, <3>4, <3>5, <3>6 DEF Tested
    <3>8. new.entry = at /\ new.failure = f /\ new.checks = asked.checks
      BY <3>6
    <3> QED
      BY <3>3, <3>7, <3>8, Zenon
  <2>6. /\ tested' \in Seq(Tested) /\ Len(tested') = Len(tested) + 1 /\ DOMAIN tested' = 1..(Len(tested) + 1)
        /\ \A k \in DOMAIN tested : k \in DOMAIN tested' /\ tested'[k] = tested[k]
        /\ tested'[Len(tested) + 1] = new
        /\ \A k \in DOMAIN tested' : k \in DOMAIN tested \/ k = Len(tested) + 1
    BY <1>2, <2>2, <2>5
  <2>7. EndpointTypes'
    BY <1>1, <2>2, <2>6 DEF EndpointTypes, Stages, Trace
  <2>8. ~Open' /\ Len(tested) < at /\ setup.dataset[at] = "query"
    BY <1>1, <2>2 DEF Open, ResultsInOrder
  <2>9. ResultsInOrder'
    <3>1. Len(tested') <= at
      BY <1>2, <2>6, <2>8
    <3>2. ASSUME NEW k \in DOMAIN tested'
          PROVE  /\ tested'[k].entry \in 1..at /\ setup.dataset[tested'[k].entry] = "query"
                 /\ tested'[k].failure = Endpoint!FailureType(tested'[k].checks)
                 /\ k > 1 => tested'[k - 1].entry < tested'[k].entry
      <4>1. CASE k \in DOMAIN tested
        <5>1. tested'[k] = tested[k] /\ (k > 1 => k - 1 \in DOMAIN tested /\ tested'[k - 1] = tested[k - 1])
          BY <1>2, <2>6, <4>1
        <5> QED
          BY <1>1, <4>1, <5>1 DEF ResultsInOrder
      <4>2. CASE k = Len(tested) + 1
        <5>1. tested'[k] = new /\ at \in 1..at
          BY <1>2, <2>6, <2>8, <4>2
        <5>2. k > 1 => k - 1 \in DOMAIN tested /\ tested'[k - 1] = tested[k - 1]
          BY <1>2, <2>6, <4>2
        <5>3. \A j \in DOMAIN tested : tested[j].entry < at
          BY <1>1 DEF ResultsInOrder
        <5> QED
          BY <2>5, <2>8, <5>1, <5>2, <5>3
      <4> QED
        BY <2>6, <4>1, <4>2
    <3>3. PICK d : d = setup.dataset
      OBVIOUS
    <3> QED
      BY <1>1, <2>8, <3>1, <3>2 DEF ResultsInOrder, Endpoint!FailureType
  <2>10. NoneSkipped'
    <3>1. \A i \in 1..at : i = at => \E k \in DOMAIN tested' : tested'[k].entry = i
      BY <2>5, <2>6
    <3>2. \A i \in 1..at : \/ setup.dataset[i] = "blank"
                           \/ i = at
                           \/ \E k \in DOMAIN tested : tested[k].entry = i
      BY <1>1, EndpointAssumption DEF NoneSkipped
    <3> QED
      BY <1>1, <2>6, <3>1, <3>2 DEF NoneSkipped
  <2>11. GateDecided' /\ Endpoint!DeathHasCause'
    BY <1>1, <2>2, EndpointAssumption DEF GateDecided, Endpoint!DeathHasCause
  <2> QED
    BY <1>3, <2>7, <2>9, <2>10, <2>11 DEF EndpointInv
<1> QED
  BY <1>4, <1>5

LEMMA EndingSteps ==
    ASSUME EndpointInv, Endpoint!Record \/ Endpoint!Report \/ Endpoint!Gate
    PROVE  EndpointInv'
<1>1. /\ stage \in {"next", "report", "gate"} /\ UNCHANGED <<setup, clock, at, asked, started, tested>>
      /\ EndpointTypes /\ GateDecided /\ GoneWhenExpired /\ Endpoint!DeathHasCause
      /\ at = Len(setup.dataset) /\ outcome = None
  BY DEF EndpointInv, EndpointTypes, GateDecided, Endpoint!Record, Endpoint!Report, Endpoint!Gate
<1>2. /\ stage' \in {"report", "gate", "done"} /\ outcome' \in {None, "pass", "fail", "raised"}
      /\ stage' = "done" <=> outcome' # None
      /\ outcome' = "pass" => ~\E rule \in setup.rules : Endpoint!Fires(rule)
      /\ outcome' = "raised" => \E i \in DOMAIN started : ~started[i].live
  BY <1>1, EndpointAssumption DEF Endpoint!Record, Endpoint!Report, Endpoint!Gate, Endpoint!Raise, Endpoint!Goto
<1>3. EndpointTypes'
  BY <1>1, <1>2 DEF EndpointTypes, Stages, Trace
<1>4. GoneWhenExpired' /\ Endpoint!DeathHasCause'
  BY <1>1, <1>2 DEF GoneWhenExpired, Endpoint!DeathHasCause
<1> QED
  BY <1>1, <1>2, <1>3, <1>4, SameEntry DEF Open

LEMMA BesideSteps == ASSUME EndpointInv, Endpoint!Tick \/ Endpoint!CleanUp PROVE EndpointInv'
<1>1. /\ stage # "done" /\ UNCHANGED <<setup, stage, at, asked, tested, outcome>>
      /\ EndpointTypes /\ GateDecided /\ GoneWhenExpired /\ Endpoint!DeathHasCause /\ outcome = None
      /\ clock \in Nat
  BY DEF EndpointInv, EndpointTypes, Endpoint!Tick, Endpoint!CleanUp
<1>2. CASE Endpoint!Tick
  <2>1. clock' = clock + 1 /\ started' = started
    BY <1>2 DEF Endpoint!Tick
  <2>2. EndpointTypes'
    BY <1>1, <2>1 DEF EndpointTypes, Stages, Trace
  <2>3. GoneWhenExpired'
    <3>1. setup.retention \in Nat \cup {None}
      BY <1>1, EndpointFields
    <3> QED
      BY <1>1, <2>1, <3>1 DEF GoneWhenExpired
  <2>4. Endpoint!DeathHasCause'
    BY <1>1, EndpointAssumption DEF Endpoint!DeathHasCause
  <2> QED
    BY <1>1, <2>2, <2>3, <2>4, SameEntry, EndpointAssumption DEF Open, EndpointInv, GateDecided
<1>3. CASE Endpoint!CleanUp
  <2>1. started' = Endpoint!Cleaned(clock) /\ clock' = clock
    BY <1>3 DEF Endpoint!CleanUp
  <2>2. /\ started' \in Seq(Trace) /\ Len(started') = Len(started)
        /\ \A i \in DOMAIN started' : ~started'[i].live =>
              setup.retention # None /\ (setup.retention = 0 \/ clock > setup.retention)
    BY <1>1, <2>1, CleanedKeeps
  <2>3. EndpointTypes'
    BY <1>1, <2>1, <2>2 DEF EndpointTypes, Stages, Trace
  <2>4. GoneWhenExpired'
    BY <1>1, <2>1, <2>2 DEF GoneWhenExpired
  <2>5. Endpoint!DeathHasCause'
    BY <1>1, EndpointAssumption DEF Endpoint!DeathHasCause
  <2> QED
    BY <1>1, <2>3, <2>4, <2>5, SameEntry, EndpointAssumption DEF Open, EndpointInv, GateDecided
<1> QED
  BY <1>2, <1>3

LEMMA EndpointMoves == ASSUME EndpointInv, [Endpoint!Next]_(Endpoint!vars) PROVE EndpointInv'
<1>1. CASE UNCHANGED Endpoint!vars
  <2>1. UNCHANGED <<setup, clock, stage, at, asked, started, tested, outcome>>
    BY <1>1 DEF Endpoint!vars
  <2>2. \A rule : Endpoint!Fires(rule)' <=> Endpoint!Fires(rule)
    BY <2>1 DEF Endpoint!Fires, Endpoint!Metrics, Endpoint!Failures, Endpoint!Column
  <2>3. EndpointTypes' /\ GoneWhenExpired'
    BY <2>1 DEF EndpointInv, EndpointTypes, GoneWhenExpired, Trace
  <2>4. ResultsInOrder' /\ NoneSkipped'
    BY <2>1 DEF EndpointInv, ResultsInOrder, NoneSkipped, Open, Endpoint!FailureType
  <2>5. GateDecided'
    BY <2>1, <2>2 DEF EndpointInv, GateDecided
  <2>6. Endpoint!DeathHasCause'
    BY <2>1 DEF EndpointInv, Endpoint!DeathHasCause, Endpoint!QueryEntries
  <2> QED
    BY <2>3, <2>4, <2>5, <2>6 DEF EndpointInv
<1>2. CASE Endpoint!Next
  BY <1>2, LoadStep, SkipBlankStep, AskStep, StartTraceStep, EvaluateDoes, EndingSteps, BesideSteps
     DEF Endpoint!Next
<1> QED
  BY <1>1, <1>2

\* The failures are counted, and fewer than 2000 questions show one in the rate.
LEMMA CountedSets ==
    ASSUME NEW n \in Nat, NEW F \in SUBSET (1..n)
    PROVE  Cardinality(F) \in Nat /\ (Cardinality(F) = 0 => F = {})
<1>1. IsFiniteSet(1..n)
  BY FS_Interval
<1>2. IsFiniteSet(F)
  BY <1>1, FS_Subset
<1> QED
  BY <1>2, FS_CardinalityType, FS_EmptySet

\* So few questions that the rate shows each failure.
Few(n) == n >= 1 /\ n < 2000

LEMMA NoneShown ==
    ASSUME NEW n \in Nat, NEW F \in SUBSET (1..n)
    PROVE  Few(n) /\ ~(Endpoint!Share(Cardinality(F), n) > 0) => F = {}
<1>1. PICK c : c = Cardinality(F)
  OBVIOUS
<1>2. c \in Nat /\ (c = 0 => F = {})
  BY <1>1, CountedSets, Zenon
<1>3. c \in Nat
  BY <1>2, Zenon
<1>4. c = 0 => F = {}
  BY <1>2, Zenon
<1>5. Few(n) /\ ~(Endpoint!Share(c, n) > 0) => c = 0
  <2>1. c # 0 => c >= 1
    BY <1>3
  <2> QED
    BY <1>3, <2>1, FailureShows DEF Few
<1>6. Few(n) /\ ~(Endpoint!Share(Cardinality(F), n) > 0) => c = 0
  BY <1>1, <1>5
<1> QED
  BY <1>4, <1>6

\* What Metrics says of the failures.
LEMMA RateOfFailures ==
    ASSUME tested # <<>>
    PROVE  Endpoint!Metrics["failure_rate"]
             = Endpoint!Share(Endpoint!Cardinality(Endpoint!Failures), Len(tested))
<1>1. \A a, b, c : [failure_rate |-> a, citation_support |-> b, unsupported_claim_rate |-> c]["failure_rate"] = a
  OBVIOUS
<1>2. PICK a : a = Endpoint!Share(Endpoint!Cardinality(Endpoint!Failures), Len(tested))
  OBVIOUS
<1>3. PICK b : b = Endpoint!Average(Endpoint!Column("support"))
  OBVIOUS
<1>4. PICK c : c = Endpoint!Average(Endpoint!Column("unsupported"))
  OBVIOUS
<1>5. Endpoint!Metrics = [failure_rate |-> a, citation_support |-> b, unsupported_claim_rate |-> c]
  BY <1>2, <1>3, <1>4, Zenon DEF Endpoint!Metrics
<1> QED
  BY <1>1, <1>2, <1>5, Zenon

LEMMA NoneFailed ==
    ASSUME EndpointTypes, tested # <<>>, Few(Len(tested)), ~(Endpoint!Metrics["failure_rate"] > 0)
    PROVE  Endpoint!Failures = {}
<1>1. Len(tested) \in Nat /\ Endpoint!Failures \in SUBSET (1..Len(tested))
  BY EndpointFields DEF Endpoint!Failures
<1>2. Endpoint!Cardinality(Endpoint!Failures) = Cardinality(Endpoint!Failures)
  BY SameCardinality, Zenon
<1>3. ~(Endpoint!Share(Cardinality(Endpoint!Failures), Len(tested)) > 0)
  BY <1>2, RateOfFailures, Zenon
<1> QED
  BY <1>1, <1>3, NoneShown, Zenon

\* Where no failure is tolerated and none fired, each result is without one.
LEMMA GreenIsEarned == ASSUME EndpointInv PROVE Endpoint!PassedEvalIsEarned
<1> SUFFICES ASSUME outcome = "pass", Len(setup.dataset) < 2000,
                    [metric |-> "failure_rate", op |-> ">", value |-> 0] \in setup.rules
             PROVE  /\ {tested[k].entry : k \in DOMAIN tested} = Endpoint!QueryEntries
                    /\ \A k \in DOMAIN tested :
                          /\ k > 1 => tested[k - 1].entry < tested[k].entry
                          /\ ~tested[k].error /\ tested[k].checks # <<>>
                          /\ \A i \in DOMAIN tested[k].checks : tested[k].checks[i] >= 650
  BY DEF Endpoint!PassedEvalIsEarned
<1> DEFINE rule == [metric |-> "failure_rate", op |-> ">", value |-> 0]
           n == Len(tested)
<1>0. rule \in setup.rules /\ rule.metric = "failure_rate" /\ rule.op = ">" /\ rule.value = 0
  OBVIOUS
<1> HIDE DEF rule
<1>1. /\ EndpointTypes /\ ResultsInOrder /\ NoneSkipped /\ at = Len(setup.dataset)
      /\ ~Endpoint!Fires(rule) /\ ~Open
  <2>1. EndpointTypes /\ ResultsInOrder /\ NoneSkipped /\ GateDecided
    BY DEF EndpointInv
  <2>2. at = Len(setup.dataset) /\ \A r \in setup.rules : ~Endpoint!Fires(r)
    BY <2>1 DEF GateDecided
  <2>3. stage = "done"
    BY <2>1, EndpointAssumption DEF EndpointTypes
  <2>4. ~Endpoint!Fires(rule)
    <3>1. rule \in setup.rules
      BY <1>0
    <3>2. \A r \in setup.rules : ~Endpoint!Fires(r)
      BY <2>2
    <3> QED
      BY <3>1, <3>2
  <2> QED
    BY <2>1, <2>2, <2>3, <2>4 DEF Open
<1>2. /\ n \in Nat /\ DOMAIN tested = 1..n /\ Len(setup.dataset) \in Nat /\ n <= Len(setup.dataset)
      /\ DOMAIN setup.dataset = 1..Len(setup.dataset)
      /\ \A k \in DOMAIN tested : tested[k].entry \in Nat /\ tested[k].checks \in Seq(Nat)
                                  /\ tested[k].error \in BOOLEAN /\ tested[k].failure \in BOOLEAN
  BY <1>1, EndpointFields DEF ResultsInOrder
<1>3. {tested[k].entry : k \in DOMAIN tested} = Endpoint!QueryEntries
  <2>1. \A k \in DOMAIN tested : tested[k].entry \in Endpoint!QueryEntries
    BY <1>1, <1>2 DEF ResultsInOrder, Endpoint!QueryEntries
  <2>2. \A i \in Endpoint!QueryEntries : \E k \in DOMAIN tested : tested[k].entry = i
    BY <1>1, <1>2 DEF NoneSkipped, Endpoint!QueryEntries
  <2> QED
    BY <2>1, <2>2
<1>4. ~(Endpoint!Metrics["failure_rate"] > 0)
  BY <1>0, <1>1 DEF Endpoint!Fires
<1>5. tested # <<>> => Endpoint!Failures = {}
  <2>1. tested # <<>> => Few(Len(tested))
    BY <1>2 DEF Few
  <2>2. EndpointTypes /\ ~(Endpoint!Metrics["failure_rate"] > 0)
    BY <1>1, <1>4
  <2> QED
    BY <2>1, <2>2, NoneFailed
<1>6. ASSUME NEW k \in DOMAIN tested
      PROVE  ~tested[k].error /\ tested[k].checks # <<>>
             /\ \A i \in DOMAIN tested[k].checks : tested[k].checks[i] >= 650
  <2>1. ~tested[k].failure /\ ~tested[k].error
    <3>1. tested # <<>>
      BY <1>2, <1>6
    <3> QED
      BY <1>5, <1>6, <3>1 DEF Endpoint!Failures
  <2>2. ~Endpoint!FailureType(tested[k].checks)
    BY <1>1, <2>1 DEF ResultsInOrder
  <2>3. tested[k].checks \in Seq(Nat)
    BY <1>2
  <2> QED
    BY <2>1, <2>2, <2>3 DEF Endpoint!FailureType
<1> QED
  BY <1>1, <1>3, <1>6 DEF ResultsInOrder

\* How an evaluation of an endpoint ends is earned: a green one has tested every
\* question of the dataset and found no fault, and one that dies has a cause for it;
\* for every dataset, answers, rules and retention.
THEOREM OutcomesAreEarned == Endpoint!Spec => []OutcomeIsEarned
<1>1. EndpointInv => OutcomeIsEarned
  BY GreenIsEarned DEF EndpointInv, Endpoint!OutcomeIsEarned, OutcomeIsEarned
<1> QED
  BY <1>1, EndpointStarts, EndpointMoves, PTL DEF Endpoint!Spec

-----------------------------------------------------------------------------
(* Ranking (Playground).                                                   *)

LEMMA PlayCardinality == \A S : Play!Cardinality(S) = Cardinality(S)
BY Zenon DEF Play!Cardinality, Cardinality

\* R puts one of two members of I before the other.
InOrder(I, R) ==
    /\ \A i \in I : <<i, i>> \notin R
    /\ \A i, j \in I : i # j => <<i, j>> \in R \/ <<j, i>> \in R
    /\ \A i, j, k \in I : <<i, j>> \in R /\ <<j, k>> \in R => <<i, k>> \in R

\* A sequence that has each member of I once.
Lists(order, I) ==
    /\ Cardinality(I) \in Nat
    /\ order \in [1..Cardinality(I) -> I]
    /\ \A m, n \in 1..Cardinality(I) : order[m] = order[n] => m = n
    /\ \A i \in I : \E n \in 1..Cardinality(I) : order[n] = i

\* A finite set in a strict total order is put in a sequence that has each of
\* its members once.
LEMMA RankedIs ==
    ASSUME NEW I, IsFiniteSet(I), NEW R, InOrder(I, R)
    PROVE  Lists(Play!Ranked(I, R), I)
<1> USE DEF InOrder
<1> DEFINE Before(i) == {j \in I : <<j, i>> \in R}
           N == Cardinality(I)
           Places == {Cardinality(Before(i)) : i \in I}
           rank == [i \in I |-> Cardinality(Before(i))]
<1>1. N \in Nat
  BY FS_CardinalityType
<1>2. ASSUME NEW i \in I
      PROVE  /\ IsFiniteSet(Before(i)) /\ Cardinality(Before(i)) \in Nat
             /\ Cardinality(Before(i)) \in 0..(N - 1)
  <2>1. Before(i) \in SUBSET (I \ {i})
    OBVIOUS
  <2>2. IsFiniteSet(I \ {i}) /\ Cardinality(I \ {i}) = N - 1
    BY FS_RemoveElement
  <2>3. IsFiniteSet(Before(i)) /\ Cardinality(Before(i)) <= N - 1
    <3> HIDE DEF Before
    <3>1. IsFiniteSet(Before(i)) /\ Cardinality(Before(i)) <= Cardinality(I \ {i})
      BY <2>1, <2>2, FS_Subset, Zenon
    <3> QED
      BY <3>1, <2>2
  <2>4. Cardinality(Before(i)) \in Nat
    BY <2>3, FS_CardinalityType
  <2> HIDE DEF Before, N
  <2> QED
    BY <2>3, <2>4, <1>1
<1>3. ASSUME NEW i \in I, NEW j \in I, <<i, j>> \in R
      PROVE  Cardinality(Before(i)) < Cardinality(Before(j))
  <2>1. Before(i) \in SUBSET Before(j) /\ i \in Before(j) /\ i \notin Before(i)
    BY <1>3
  <2>2. Before(i) \in SUBSET Before(j) /\ Before(i) # Before(j)
    BY <2>1
  <2>3. Cardinality(Before(i)) <= Cardinality(Before(j)) /\ Cardinality(Before(i)) # Cardinality(Before(j))
    BY <1>2, <2>2, FS_Subset
  <2> QED
    BY <2>3, <1>2, <1>1
<1>4. ASSUME NEW i \in I, NEW j \in I, Cardinality(Before(i)) = Cardinality(Before(j))
      PROVE  i = j
  <2> SUFFICES ASSUME i # j PROVE FALSE
    OBVIOUS
  <2>1. Cardinality(Before(i)) \in Nat /\ Cardinality(Before(j)) \in Nat
    BY <1>2
  <2>2. Cardinality(Before(i)) < Cardinality(Before(j)) \/ Cardinality(Before(j)) < Cardinality(Before(i))
    BY <1>3
  <2> QED
    BY <1>4, <2>1, <2>2
<1>5. rank \in Surjection(I, 0..(N - 1))
  <2> HIDE DEF Before, N
  <2>1. rank \in Injection(I, 0..(N - 1))
    BY <1>2, <1>4 DEF Injection, IsInjective
  <2>2. IsFiniteSet(0..(N - 1)) /\ Cardinality(0..(N - 1)) = N
    BY <1>1, FS_Interval
  <2> QED
    BY <2>1, <2>2, FS_Injection DEF N
<1>6. \A n \in 1..N : \E i \in I : Cardinality(Before(i)) = n - 1
  <2> HIDE DEF Before, N
  <2>1. TAKE n \in 1..N
  <2>2. n - 1 \in 0..(N - 1)
    BY <1>1
  <2>3. PICK i \in I : rank[i] = n - 1
    BY <1>5, <2>2 DEF Surjection
  <2> QED
    BY <2>3
<1>7. PICK order : order = Play!Ranked(I, R)
  OBVIOUS
<1>8. order = [n \in 1..N |-> CHOOSE i \in I : Play!Cardinality(Before(i)) = n - 1]
  BY <1>7, PlayCardinality DEF Play!Ranked
<1>9. \A n \in 1..N : order[n] \in I /\ Cardinality(Before(order[n])) = n - 1
  <2> HIDE DEF Before, N
  <2>1. TAKE n \in 1..N
  <2>2. order[n] = CHOOSE i \in I : Play!Cardinality(Before(i)) = n - 1
    BY <1>8
  <2>3. PICK i \in I : Play!Cardinality(Before(i)) = n - 1
    BY <1>6, PlayCardinality
  <2>4. order[n] \in I /\ Play!Cardinality(Before(order[n])) = n - 1
    BY <2>2, <2>3, Zenon
  <2> QED
    BY <2>4, PlayCardinality
<1> HIDE DEF Before, N, rank
<1>10. order \in [1..N -> I]
  BY <1>8, <1>9
<1>11. \A m, n \in 1..N : order[m] = order[n] => m = n
  <2> SUFFICES ASSUME NEW m \in 1..N, NEW n \in 1..N, order[m] = order[n] PROVE m = n
    OBVIOUS
  <2>1. m - 1 = n - 1
    BY <1>9
  <2> QED
    BY <2>1, <1>1
<1>12. \A i \in I : \E n \in 1..N : order[n] = i
  <2> SUFFICES ASSUME NEW i \in I PROVE \E n \in 1..N : order[n] = i
    OBVIOUS
  <2>1. PICK n : n = Cardinality(Before(i)) + 1 /\ n \in 1..N /\ n - 1 = Cardinality(Before(i))
    BY <1>1, <1>2
  <2>2. order[n] \in I /\ Cardinality(Before(order[n])) = Cardinality(Before(i))
    BY <1>9, <2>1
  <2>3. order[n] = i
    BY <1>4, <2>2
  <2> QED
    BY <2>1, <2>3
<1> QED
  BY <1>1, <1>7, <1>10, <1>11, <1>12 DEF N, Lists

LEMMA AscendingIs ==
    ASSUME NEW I \in SUBSET Nat, IsFiniteSet(I)
    PROVE  Lists(Play!Ascending(I), I)
<1>1. PICK R : R = {p \in I \X I : p[1] < p[2]}
  OBVIOUS
<1>2. \A i, j \in I : <<i, j>> \in R <=> i < j
  BY <1>1
<1>3. InOrder(I, R)
  BY <1>2 DEF InOrder
<1>4. Play!Ascending(I) = Play!Ranked(I, R)
  BY <1>1, Zenon DEF Play!Ascending
<1> QED
  BY <1>3, <1>4, RankedIs, Zenon

PlayHit == [id : Nat, score : Int]

\* Some of the hits at the places I, each place at most once.
Drawn(some, hits, I) ==
    \E f \in [DOMAIN some -> I] :
        /\ \A m, n \in DOMAIN some : f[m] = f[n] => m = n
        /\ \A n \in DOMAIN some : some[n] = hits[f[n]]

LEMMA AtIs ==
    ASSUME NEW hits \in Seq(PlayHit), NEW I \in SUBSET DOMAIN hits
    PROVE  /\ Play!At(hits, I) \in Seq(PlayHit)
           /\ Drawn(Play!At(hits, I), hits, I)
           /\ \A m \in I : \E n \in DOMAIN Play!At(hits, I) : Play!At(hits, I)[n] = hits[m]
<1>1. IsFiniteSet(I) /\ I \in SUBSET Nat
  <2>1. DOMAIN hits = 1..Len(hits) /\ Len(hits) \in Nat
    OBVIOUS
  <2>2. IsFiniteSet(1..Len(hits))
    BY <2>1, FS_Interval
  <2> QED
    BY <2>1, <2>2, FS_Subset
<1>2. PICK N, place : N = Cardinality(I) /\ place = Play!Ascending(I)
  OBVIOUS
<1>3. /\ N \in Nat /\ place \in [1..N -> I]
      /\ \A m, n \in 1..N : place[m] = place[n] => m = n
      /\ \A i \in I : \E n \in 1..N : place[n] = i
  BY <1>1, <1>2, AscendingIs, Zenon DEF Lists
<1>4. PICK some : some = [n \in 1..N |-> hits[place[n]]]
  OBVIOUS
<1>5. Play!At(hits, I) = some
  BY <1>2, <1>3, <1>4 DEF Play!At
<1>6. \A n \in 1..N : hits[place[n]] \in PlayHit
  BY <1>3
<1>7. some \in Seq(PlayHit) /\ DOMAIN some = 1..N /\ \A n \in 1..N : some[n] = hits[place[n]]
  BY <1>3, <1>4, <1>6
<1>8. Drawn(some, hits, I)
  BY <1>3, <1>7 DEF Drawn
<1>9. \A m \in I : \E n \in DOMAIN some : some[n] = hits[m]
  BY <1>3, <1>7
<1> QED
  BY <1>5, <1>7, <1>8, <1>9

LEMMA LeastOfTwo ==
    \A a, b \in Int : Play!Min({a, b}) = IF a <= b THEN a ELSE b
BY DEF Play!Min

LEMMA GreatestOfTwo ==
    \A a, b \in Int : Play!Max({a, b}) = IF a >= b THEN a ELSE b
BY DEF Play!Max

LEMMA BestIs ==
    ASSUME NEW hits \in Seq(PlayHit), NEW limit \in Nat
    PROVE  /\ Play!Best(hits, limit) \in Seq(PlayHit)
           /\ Drawn(Play!Best(hits, limit), hits, DOMAIN hits)
           /\ Len(Play!Best(hits, limit)) <= limit
           /\ \/ Len(Play!Best(hits, limit)) = limit
              \/ /\ Len(hits) < limit
                 /\ \A m \in DOMAIN hits :
                       \E n \in DOMAIN Play!Best(hits, limit) : Play!Best(hits, limit)[n] = hits[m]
<1> DEFINE I == DOMAIN hits
           R == {p \in I \X I : \/ hits[p[1]].score > hits[p[2]].score
                                \/ hits[p[1]].score = hits[p[2]].score /\ p[1] < p[2]}
<1>1. Play!Best(hits, limit) = [n \in 1..Play!Min({Len(hits), limit}) |-> hits[Play!Ranked(I, R)[n]]]
  BY Zenon DEF Play!Best
<1>2. PICK N : N = Len(hits)
  OBVIOUS
<1>3. N \in Nat /\ I = 1..N /\ I \in SUBSET Nat /\ IsFiniteSet(I) /\ Cardinality(I) = N
  <2>1. N \in Nat /\ I = 1..N
    BY <1>2
  <2>2. IsFiniteSet(1..N) /\ Cardinality(1..N) = N
    BY <2>1, FS_Interval
  <2> QED
    BY <2>1, <2>2
<1>4. \A i \in I : hits[i] \in PlayHit
  OBVIOUS
<1>5. PICK mark : mark = [i \in I |-> hits[i].score]
  OBVIOUS
<1>6. mark \in [I -> Int]
  BY <1>4, <1>5 DEF PlayHit
<1>7. \A i, j \in I : <<i, j>> \in R <=> mark[i] > mark[j] \/ (mark[i] = mark[j] /\ i < j)
  <2>1. TAKE i, j \in I
  <2>2. <<i, j>> \in R <=> hits[i].score > hits[j].score \/ (hits[i].score = hits[j].score /\ i < j)
    <3> HIDE DEF I
    <3> QED
      OBVIOUS
  <2>3. mark[i] = hits[i].score /\ mark[j] = hits[j].score
    BY <1>5
  <2> QED
    BY <2>2, <2>3, Zenon
<1> HIDE DEF I, R
<1>8. InOrder(I, R)
  BY <1>3, <1>6, <1>7 DEF InOrder
<1>9. PICK order : order = Play!Ranked(I, R)
  OBVIOUS
<1>9a. /\ order \in [1..N -> I]
       /\ \A m, n \in 1..N : order[m] = order[n] => m = n
       /\ \A i \in I : \E n \in 1..N : order[n] = i
  <2>1. Lists(order, I)
    BY <1>3, <1>8, <1>9, RankedIs, Zenon
  <2> QED
    BY <1>3, <2>1, Zenon DEF Lists
<1>10. PICK L : L = Play!Min({N, limit})
  OBVIOUS
<1>11. L \in Nat /\ L <= N /\ L <= limit /\ (L = limit \/ (L = N /\ N < limit))
  BY <1>3, <1>10, LeastOfTwo
<1>12. PICK some : some = [n \in 1..L |-> hits[order[n]]]
  OBVIOUS
<1>13. Play!Best(hits, limit) = some
  BY <1>1, <1>2, <1>9, <1>10, <1>12
<1>14. \A n \in 1..L : n \in 1..N /\ hits[order[n]] \in PlayHit /\ order[n] \in I
  <2>1. TAKE n \in 1..L
  <2>2. n \in 1..N
    BY <1>3, <1>11
  <2>3. order[n] \in I
    BY <2>2, <1>9a
  <2> QED
    BY <2>2, <2>3, <1>4, Zenon
<1>15. some \in Seq(PlayHit) /\ DOMAIN some = 1..L /\ Len(some) = L
  BY <1>11, <1>12, <1>14
<1>16. Drawn(some, hits, I)
  <2>1. PICK f : f = [n \in 1..L |-> order[n]]
    OBVIOUS
  <2>2. f \in [DOMAIN some -> I]
    BY <1>14, <1>15, <2>1
  <2>3. \A m, n \in DOMAIN some : f[m] = f[n] => m = n
    BY <1>9a, <1>14, <1>15, <2>1
  <2>4. \A n \in DOMAIN some : some[n] = hits[f[n]]
    BY <1>12, <1>15, <2>1
  <2> QED
    BY <2>2, <2>3, <2>4 DEF Drawn
<1>17. L = N => \A m \in I : \E n \in DOMAIN some : some[n] = hits[m]
  BY <1>9a, <1>12, <1>15
<1> QED
  BY <1>2, <1>11, <1>13, <1>15, <1>16, <1>17 DEF I

\* Hits that name records of a set, each at most once.
Once(hits, records) ==
    /\ hits \in Seq(PlayHit)
    /\ \A n \in DOMAIN hits : hits[n].id \in records
    /\ \A m, n \in DOMAIN hits : hits[m].id = hits[n].id => m = n

\* The best of some hits: as many as were asked for, or all of them.
Keeps(some, hits, limit) ==
    /\ Len(some) <= limit
    /\ Len(some) = limit \/ (Len(hits) <= Len(some) /\ Play!Ids(hits) \subseteq Play!Ids(some))

LEMMA DrawnOnce ==
    ASSUME NEW records, NEW hits, Once(hits, records), NEW I \in SUBSET DOMAIN hits,
           NEW some \in Seq(PlayHit), Drawn(some, hits, I)
    PROVE  Once(some, records) /\ Play!Ids(some) \subseteq Play!Ids(hits)
<1>1. PICK f \in [DOMAIN some -> I] : /\ \A m, n \in DOMAIN some : f[m] = f[n] => m = n
                                      /\ \A n \in DOMAIN some : some[n] = hits[f[n]]
  BY DEF Drawn
<1>2. \A n \in DOMAIN some : f[n] \in DOMAIN hits /\ some[n].id = hits[f[n]].id
  BY <1>1
<1>3. \A n \in DOMAIN some : some[n].id \in records
  BY <1>2 DEF Once
<1>4. \A m, n \in DOMAIN some : some[m].id = some[n].id => m = n
  BY <1>1, <1>2 DEF Once
<1>5. Play!Ids(some) \subseteq Play!Ids(hits)
  BY <1>2 DEF Play!Ids
<1> QED
  BY <1>3, <1>4, <1>5 DEF Once

LEMMA AtOnce ==
    ASSUME NEW records, NEW hits, Once(hits, records), NEW I \in SUBSET DOMAIN hits
    PROVE  /\ Once(Play!At(hits, I), records) /\ Play!Ids(Play!At(hits, I)) \subseteq Play!Ids(hits)
           /\ \A m \in I : hits[m].id \in Play!Ids(Play!At(hits, I))
<1>1. PICK some : some = Play!At(hits, I)
  OBVIOUS
<1>2. some \in Seq(PlayHit) /\ Drawn(some, hits, I) /\ \A m \in I : \E n \in DOMAIN some : some[n] = hits[m]
  BY <1>1, AtIs DEF Once
<1>3. \A m \in I : hits[m].id \in Play!Ids(some)
  BY <1>2 DEF Play!Ids
<1> QED
  BY <1>1, <1>2, <1>3, DrawnOnce

LEMMA BestKeeps ==
    ASSUME NEW records, NEW hits, Once(hits, records), NEW limit \in Nat
    PROVE  Once(Play!Best(hits, limit), records) /\ Keeps(Play!Best(hits, limit), hits, limit)
<1>1. PICK some : some = Play!Best(hits, limit)
  OBVIOUS
<1>2. /\ some \in Seq(PlayHit) /\ Drawn(some, hits, DOMAIN hits) /\ Len(some) <= limit
      /\ \/ Len(some) = limit
         \/ /\ Len(hits) < limit
            /\ \A m \in DOMAIN hits : \E n \in DOMAIN some : some[n] = hits[m]
  BY <1>1, BestIs DEF Once
<1>3. Once(some, records)
  BY <1>2, DrawnOnce
<1>4. ASSUME Len(some) # limit
      PROVE  Len(hits) <= Len(some) /\ Play!Ids(hits) \subseteq Play!Ids(some)
  <2>1. \A m \in DOMAIN hits : \E n \in DOMAIN some : some[n] = hits[m]
    BY <1>2, <1>4
  <2>2. Play!Ids(hits) \subseteq Play!Ids(some)
    BY <2>1 DEF Play!Ids
  <2>3. PICK f : f = [m \in DOMAIN hits |-> CHOOSE n \in DOMAIN some : some[n] = hits[m]]
    OBVIOUS
  <2>4. \A m \in DOMAIN hits : f[m] \in DOMAIN some /\ some[f[m]] = hits[m]
    BY <2>1, <2>3
  <2>5. \A m, n \in DOMAIN hits : f[m] = f[n] => m = n
    BY <2>4 DEF Once
  <2>6. f \in Injection(DOMAIN hits, DOMAIN some)
    BY <2>3, <2>4, <2>5 DEF Injection, IsInjective
  <2>7. /\ DOMAIN some = 1..Len(some) /\ Len(some) \in Nat
        /\ DOMAIN hits = 1..Len(hits) /\ Len(hits) \in Nat
    BY <1>2 DEF Once
  <2>8. /\ IsFiniteSet(DOMAIN some) /\ Cardinality(DOMAIN some) = Len(some)
        /\ IsFiniteSet(DOMAIN hits) /\ Cardinality(DOMAIN hits) = Len(hits)
    <3>1. \A N \in Nat : IsFiniteSet(1..N) /\ Cardinality(1..N) = N
      BY FS_Interval
    <3> QED
      BY <2>7, <3>1, Zenon
  <2>9. Len(hits) <= Len(some)
    BY <2>6, <2>8, FS_Injection
  <2> QED
    BY <2>2, <2>9
<1> QED
  BY <1>1, <1>2, <1>3, <1>4 DEF Keeps

\* Other scores change no record.
LEMMA ScoredOnce ==
    ASSUME NEW records, NEW hits, Once(hits, records), NEW new \in Seq(PlayHit),
           DOMAIN new = DOMAIN hits, \A n \in DOMAIN hits : new[n].id = hits[n].id
    PROVE  Once(new, records) /\ Play!Ids(new) = Play!Ids(hits) /\ Len(new) = Len(hits)
<1>1. Len(new) = Len(hits)
  BY DEF Once
<1>2. Play!Ids(new) = Play!Ids(hits)
  BY DEF Play!Ids
<1>3. Once(new, records)
  BY DEF Once
<1> QED
  BY <1>1, <1>2, <1>3

LEMMA JoinedOnce ==
    ASSUME NEW records, NEW one, NEW other, Once(one, records), Once(other, records),
           \A n \in DOMAIN other : other[n].id \notin Play!Ids(one)
    PROVE  /\ Once(one \o other, records) /\ Len(one) <= Len(one \o other)
           /\ Play!Ids(one) \subseteq Play!Ids(one \o other)
           /\ Play!Ids(one \o other) \subseteq Play!Ids(one) \cup Play!Ids(other)
<1>1. PICK all : all = one \o other
  OBVIOUS
<1>2. one \in Seq(PlayHit) /\ other \in Seq(PlayHit) /\ all \in Seq(PlayHit)
  BY <1>1 DEF Once
<1>3. PICK N, M : N = Len(one) /\ M = Len(other)
  OBVIOUS
<1>4. /\ N \in Nat /\ M \in Nat /\ DOMAIN one = 1..N /\ DOMAIN other = 1..M
      /\ Len(all) = N + M /\ DOMAIN all = 1..(N + M)
      /\ \A n \in 1..N : all[n] = one[n]
      /\ \A n \in (N + 1)..(N + M) : n - N \in 1..M /\ all[n] = other[n - N]
  BY <1>1, <1>2, <1>3
<1>5. ASSUME NEW n \in DOMAIN all
      PROVE  \/ n \in 1..N /\ all[n] = one[n]
             \/ n \in (N + 1)..(N + M) /\ n - N \in 1..M /\ all[n] = other[n - N]
  BY <1>4
<1>6. \A n \in DOMAIN all : all[n].id \in records
  BY <1>4, <1>5 DEF Once
<1>7. ASSUME NEW m \in DOMAIN all, NEW n \in DOMAIN all, all[m].id = all[n].id PROVE m = n
  <2>1. \A k \in 1..N : one[k].id \in Play!Ids(one)
    BY <1>4 DEF Play!Ids
  <2>2. CASE m \in 1..N /\ n \in 1..N
    BY <2>2, <1>4, <1>7 DEF Once
  <2>3. CASE m \in 1..N /\ n \in (N + 1)..(N + M)
    BY <2>1, <2>3, <1>4, <1>7
  <2>4. CASE m \in (N + 1)..(N + M) /\ n \in 1..N
    BY <2>1, <2>4, <1>4, <1>7
  <2>5. CASE m \in (N + 1)..(N + M) /\ n \in (N + 1)..(N + M)
    <3>1. m - N = n - N
      BY <2>5, <1>4, <1>7 DEF Once
    <3> QED
      BY <3>1, <2>5, <1>4
  <2> QED
    BY <1>5, <2>2, <2>3, <2>4, <2>5
<1>8. Play!Ids(one) \subseteq Play!Ids(all)
  BY <1>4 DEF Play!Ids
<1>9. Play!Ids(all) \subseteq Play!Ids(one) \cup Play!Ids(other)
  BY <1>4, <1>5 DEF Play!Ids
<1> QED
  BY <1>1, <1>2, <1>3, <1>4, <1>6, <1>7, <1>8, <1>9 DEF Once

\* The first of some hits.
LEMMA FirstOnce ==
    ASSUME NEW records, NEW hits, Once(hits, records), NEW n \in 0..Len(hits)
    PROVE  /\ Once(SubSeq(hits, 1, n), records) /\ Len(SubSeq(hits, 1, n)) = n
           /\ Play!Ids(SubSeq(hits, 1, n)) \subseteq Play!Ids(hits)
           /\ n = Len(hits) => SubSeq(hits, 1, n) = hits
<1>1. hits \in Seq(PlayHit) /\ Len(hits) \in Nat /\ DOMAIN hits = 1..Len(hits)
  BY DEF Once
<1>2. PICK some : some = SubSeq(hits, 1, n)
  OBVIOUS
<1>3. some \in Seq(PlayHit) /\ Len(some) = n /\ DOMAIN some = 1..n /\ \A m \in 1..n : some[m] = hits[m]
  BY <1>1, <1>2
<1>4. Once(some, records)
  BY <1>1, <1>3 DEF Once
<1>5. Play!Ids(some) \subseteq Play!Ids(hits)
  BY <1>1, <1>3 DEF Play!Ids
<1>6. n = Len(hits) => some = hits
  BY <1>1, <1>3
<1> QED
  BY <1>2, <1>3, <1>4, <1>5, <1>6

-----------------------------------------------------------------------------
(* The least and the greatest of some numbers.                             *)

LEMMA LeastNatural ==
    ASSUME NEW S \in SUBSET Nat, S # {}
    PROVE  \E x \in S : \A y \in S : x <= y
<1> DEFINE R == OpToRel(<, Nat)
<1>1. IsWellFoundedOn(R, Nat)
  BY NatLessThanWellFounded
<1> HIDE DEF R
<1>2. PICK x \in S : \A y \in S : ~(<<y, x>> \in R)
  BY <1>1, WFMin
<1>3. ASSUME NEW y \in S PROVE x <= y
  <2>1. ~(<<y, x>> \in R)
    BY <1>2
  <2>2. ~(y < x)
    BY <2>1 DEF R, OpToRel
  <2> QED
    BY <2>2
<1> QED
  BY <1>3

LEMMA LeastOfSome ==
    ASSUME NEW S \in SUBSET Int, IsFiniteSet(S), S # {}
    PROVE  Play!Min(S) \in S /\ \A x \in S : Play!Min(S) <= x
<1> DEFINE Below(x) == {y \in S : y < x}
<1>1. ASSUME NEW x \in S PROVE IsFiniteSet(Below(x)) /\ Cardinality(Below(x)) \in Nat
  <2>1. Below(x) \in SUBSET S
    OBVIOUS
  <2> HIDE DEF Below
  <2> QED
    BY <2>1, FS_Subset, FS_CardinalityType
<1>2. PICK Counts : Counts = {Cardinality(Below(x)) : x \in S}
  OBVIOUS
<1>3. Counts \in SUBSET Nat /\ Counts # {}
  BY <1>1, <1>2
<1>4. PICK least \in Counts : \A c \in Counts : least <= c
  BY <1>3, LeastNatural
<1>5. PICK x \in S : least = Cardinality(Below(x))
  BY <1>2
<1>6. \A y \in S : x <= y
  <2> SUFFICES ASSUME NEW y \in S, y < x PROVE FALSE
    OBVIOUS
  <2>1. Below(y) \in SUBSET Below(x) /\ Below(y) # Below(x)
    <3>1. \A z \in S : z < y => z < x
      OBVIOUS
    <3>2. y \in Below(x) /\ y \notin Below(y)
      OBVIOUS
    <3> QED
      BY <3>1, <3>2
  <2>2. Cardinality(Below(y)) <= Cardinality(Below(x)) /\ Cardinality(Below(y)) # Cardinality(Below(x))
    <3> HIDE DEF Below
    <3> QED
      BY <1>1, <2>1, FS_Subset
  <2>3. Cardinality(Below(y)) \in Counts
    BY <1>2
  <2> HIDE DEF Below
  <2> QED
    BY <1>1, <1>3, <1>4, <1>5, <2>2, <2>3
<1> QED
  BY <1>6 DEF Play!Min

LEMMA GreatestOfSome ==
    ASSUME NEW S \in SUBSET Int, IsFiniteSet(S), S # {}
    PROVE  Play!Max(S) \in S /\ \A x \in S : x <= Play!Max(S)
<1>1. PICK f : f = [x \in S |-> 0 - x]
  OBVIOUS
<1>2. PICK T : T = {f[x] : x \in S}
  OBVIOUS
<1>3. IsFiniteSet(T)
  <2>1. f \in Surjection(S, T)
    BY <1>1, <1>2 DEF Surjection
  <2> QED
    BY <2>1, FS_Surjection
<1>4. T \in SUBSET Int /\ T # {}
  <2>1. \A x \in S : f[x] \in Int
    BY <1>1
  <2> QED
    BY <1>2, <2>1
<1>5. PICK low : low \in T /\ \A y \in T : low <= y
  <2>1. Play!Min(T) \in T /\ \A y \in T : Play!Min(T) <= y
    BY <1>3, <1>4, LeastOfSome
  <2> QED
    BY <2>1
<1>6. PICK x \in S : low = 0 - x
  BY <1>1, <1>2, <1>5
<1>7. \A y \in S : x >= y
  <2> SUFFICES ASSUME NEW y \in S PROVE x >= y
    OBVIOUS
  <2>1. 0 - y \in T
    BY <1>1, <1>2
  <2> QED
    BY <1>5, <1>6, <2>1
<1> QED
  BY <1>7 DEF Play!Max

-----------------------------------------------------------------------------
(* What the strategies find (Playground).                                  *)

PlayRecord == [owner : Users, upload : Nat \X Nat, words : Words, from : Nat, to : Nat]

StoreOK == store \in Seq(PlayRecord)

Records(user) == {i \in DOMAIN store : store[i].owner = user}

LEMMA RecordsAreFinite ==
    ASSUME StoreOK
    PROVE  \A user : /\ Records(user) \in SUBSET Nat /\ IsFiniteSet(Records(user))
                     /\ Records(user) \in SUBSET DOMAIN store
<1>1. DOMAIN store \in SUBSET Nat /\ IsFiniteSet(DOMAIN store)
  <2>1. DOMAIN store = 1..Len(store) /\ Len(store) \in Nat
    BY DEF StoreOK
  <2>2. IsFiniteSet(1..Len(store))
    BY <2>1, FS_Interval
  <2> QED
    BY <2>1, <2>2
<1>2. TAKE user
<1>3. Records(user) \in SUBSET DOMAIN store
  BY DEF Records
<1> QED
  BY <1>1, <1>3, FS_Subset

\* A sequence that has each of a user's records once.
LEMMA OwnIs ==
    ASSUME StoreOK, NEW user
    PROVE  /\ Play!Own(user) \in Seq(Records(user)) /\ Len(Play!Own(user)) = Cardinality(Records(user))
           /\ \A m, n \in DOMAIN Play!Own(user) : Play!Own(user)[m] = Play!Own(user)[n] => m = n
           /\ \A i \in Records(user) : \E n \in DOMAIN Play!Own(user) : Play!Own(user)[n] = i
<1>1. Play!Own(user) = Play!Ascending(Records(user))
  BY Zenon DEF Play!Own, Records
<1>2. PICK own : own = Play!Own(user)
  OBVIOUS
<1>3. Lists(own, Records(user))
  BY <1>1, <1>2, RecordsAreFinite, AscendingIs
<1>4. PICK N : N = Cardinality(Records(user))
  OBVIOUS
<1>5. /\ N \in Nat /\ own \in [1..N -> Records(user)]
      /\ \A m, n \in 1..N : own[m] = own[n] => m = n
      /\ \A i \in Records(user) : \E n \in 1..N : own[n] = i
  BY <1>3, <1>4, Zenon DEF Lists
<1>6. own \in Seq(Records(user)) /\ Len(own) = N /\ DOMAIN own = 1..N
  BY <1>5
<1> QED
  BY <1>2, <1>4, <1>5, <1>6

\* Some of a user's records with a score each.
Scored(own, score) == [n \in DOMAIN own |-> Play!Hit(own[n], score[store[own[n]].words])]

LEMMA ScoredIs ==
    ASSUME StoreOK, NEW user, NEW score \in [Words -> Int],
           NEW own \in Seq(Records(user)), \A m, n \in DOMAIN own : own[m] = own[n] => m = n,
           NEW hits, hits = Scored(own, score)
    PROVE  /\ Once(hits, Records(user)) /\ DOMAIN hits = DOMAIN own
           /\ \A n \in DOMAIN own : hits[n].id = own[n] /\ hits[n].score = score[store[own[n]].words]
<1>1. \A n \in DOMAIN own : /\ own[n] \in Records(user) /\ own[n] \in Nat
                            /\ store[own[n]] \in PlayRecord
  BY RecordsAreFinite DEF Records, StoreOK
<1>2. \A n \in DOMAIN own : score[store[own[n]].words] \in Int
  BY <1>1 DEF PlayRecord
<1>3. \A n \in DOMAIN own : /\ hits[n] \in PlayHit /\ hits[n].id = own[n]
                            /\ hits[n].score = score[store[own[n]].words]
  BY <1>1, <1>2 DEF Play!Hit, PlayHit, Scored
<1>4. DOMAIN hits = DOMAIN own /\ hits \in Seq(PlayHit)
  BY <1>3 DEF Scored
<1>5. \A n \in DOMAIN hits : hits[n].id \in Records(user)
  BY <1>1, <1>3, <1>4
<1>6. \A m, n \in DOMAIN hits : hits[m].id = hits[n].id => m = n
  BY <1>3, <1>4
<1> QED
  BY <1>3, <1>4, <1>5, <1>6 DEF Once

\* As many as were asked for, or all of a user's.
LEMMA SearchIs ==
    ASSUME StoreOK, NEW user, NEW q, q.dense \in [Words -> Int], NEW limit \in Nat
    PROVE  /\ Once(Play!Search(user, q, limit), Records(user))
           /\ Len(Play!Search(user, q, limit)) <= limit
           /\ \/ Len(Play!Search(user, q, limit)) = limit
              \/ Records(user) \subseteq Play!Ids(Play!Search(user, q, limit))
<1>1. PICK own, score : own = Play!Own(user) /\ score = q.dense
  OBVIOUS
<1>2. /\ own \in Seq(Records(user)) /\ \A m, n \in DOMAIN own : own[m] = own[n] => m = n
      /\ \A i \in Records(user) : \E n \in DOMAIN own : own[n] = i
  BY <1>1, OwnIs
<1>3. PICK hits : hits = Scored(own, score)
  OBVIOUS
<1>4. Play!Search(user, q, limit) = Play!Best(hits, limit)
  BY <1>1, <1>3, Zenon DEF Play!Search, Scored
<1>5. /\ Once(hits, Records(user)) /\ DOMAIN hits = DOMAIN own
      /\ \A n \in DOMAIN own : hits[n].id = own[n]
  BY <1>1, <1>2, <1>3, ScoredIs
<1>6. PICK some : some = Play!Best(hits, limit)
  OBVIOUS
<1>7. Once(some, Records(user)) /\ Keeps(some, hits, limit)
  BY <1>5, <1>6, BestKeeps
<1>8. Records(user) \subseteq Play!Ids(hits)
  BY <1>2, <1>5 DEF Play!Ids
<1> QED
  BY <1>4, <1>6, <1>7, <1>8 DEF Keeps

\* By words, as many as were asked for, or all that are listed and have one.
LEMMA Bm25Is ==
    ASSUME StoreOK, NEW user, NEW q, q.lexical \in [Words -> Nat], NEW limit \in Nat, ListLimit \in Nat
    PROVE  /\ Once(Play!Bm25(user, q, limit), Records(user))
           /\ Len(Play!Bm25(user, q, limit)) <= limit
           /\ \/ Len(Play!Bm25(user, q, limit)) = limit
              \/ Len(Play!Own(user)) > ListLimit
              \/ \A i \in Records(user) :
                    q.lexical[store[i].words] # 0 => i \in Play!Ids(Play!Bm25(user, q, limit))
<1>1. PICK own, inList, score : own = Play!Own(user) /\ inList = Play!Listed(user) /\ score = q.lexical
  OBVIOUS
<1>2. /\ own \in Seq(Records(user)) /\ \A m, n \in DOMAIN own : own[m] = own[n] => m = n
      /\ \A i \in Records(user) : \E n \in DOMAIN own : own[n] = i
  BY <1>1, OwnIs
<1>3. PICK N : N = Play!Min({Len(own), ListLimit})
  OBVIOUS
<1>4. N \in 0..Len(own) /\ (Len(own) > ListLimit \/ N = Len(own))
  <2>1. Len(own) \in Nat
    BY <1>2
  <2> QED
    BY <2>1, <1>3, LeastOfTwo
<1>5. inList = SubSeq(own, 1, N)
  BY <1>1, <1>3 DEF Play!Listed
<1>6. /\ inList \in Seq(Records(user)) /\ \A m, n \in DOMAIN inList : inList[m] = inList[n] => m = n
      /\ N = Len(own) => inList = own
  <2>1. Len(own) \in Nat /\ DOMAIN own = 1..Len(own)
    BY <1>2
  <2>2. /\ inList \in Seq(Records(user)) /\ DOMAIN inList = 1..N
        /\ \A n \in 1..N : n \in DOMAIN own /\ inList[n] = own[n]
    <3>1. PICK S : S = Records(user)
      OBVIOUS
    <3>2. own \in Seq(S)
      BY <1>2, <3>1
    <3>3. N \in 0..Len(own)
      BY <1>4
    <3>4. inList \in Seq(S) /\ Len(inList) = N /\ DOMAIN inList = 1..N
      BY <1>5, <2>1, <3>2, <3>3
    <3>5. \A n \in 1..N : n \in DOMAIN own /\ inList[n] = own[n]
      BY <1>5, <2>1, <3>2, <3>3
    <3> QED
      BY <3>1, <3>4, <3>5
  <2>3. \A m, n \in DOMAIN inList : inList[m] = inList[n] => m = n
    BY <1>2, <2>2
  <2>4. N = Len(own) => inList = own
    <3> SUFFICES ASSUME N = Len(own) PROVE inList = own
      OBVIOUS
    <3>1. Len(inList) = Len(own) /\ \A n \in 1..Len(own) : inList[n] = own[n]
      BY <2>1, <2>2
    <3> QED
      BY <1>2, <2>2, <3>1, SeqEqual
  <2> QED
    BY <2>2, <2>3, <2>4
<1>7. PICK scored : scored = Scored(inList, score)
  OBVIOUS
<1>8. PICK places : places = {n \in DOMAIN scored : scored[n].score > 0}
  OBVIOUS
<1>9. Play!Bm25(user, q, limit) = Play!Best(Play!At(scored, places), limit)
  BY <1>1, <1>7, <1>8, Zenon DEF Play!Bm25, Scored
<1>10. score \in [Words -> Int] /\ score \in [Words -> Nat]
  BY <1>1
<1>11. /\ Once(scored, Records(user)) /\ DOMAIN scored = DOMAIN inList
       /\ \A n \in DOMAIN inList : /\ scored[n].id = inList[n]
                                   /\ scored[n].score = score[store[inList[n]].words]
  <2>1. score \in [Words -> Int]
    BY <1>10
  <2>2. inList \in Seq(Records(user)) /\ \A m, n \in DOMAIN inList : inList[m] = inList[n] => m = n
    BY <1>6
  <2> QED
    BY <1>7, <2>1, <2>2, ScoredIs
<1>12. places \in SUBSET DOMAIN scored
  BY <1>8
<1>13. PICK hits : hits = Play!At(scored, places)
  OBVIOUS
<1>14. Once(hits, Records(user)) /\ \A m \in places : scored[m].id \in Play!Ids(hits)
  BY <1>11, <1>12, <1>13, AtOnce
<1>15. PICK some : some = Play!Best(hits, limit)
  OBVIOUS
<1>16. Once(some, Records(user)) /\ Keeps(some, hits, limit)
  BY <1>14, <1>15, BestKeeps
<1>17. ASSUME N = Len(own), NEW i \in Records(user), score[store[i].words] # 0
       PROVE  i \in Play!Ids(hits)
  <2>1. PICK n \in DOMAIN inList : inList[n] = i
    BY <1>2, <1>6, <1>17
  <2>2. store[i].words \in Words
    <3>1. store[i] \in PlayRecord
      BY DEF Records, StoreOK
    <3> QED
      BY <3>1 DEF PlayRecord
  <2>3. score[store[i].words] \in Nat
    BY <1>10, <2>2
  <2>4. n \in places
    BY <1>8, <1>11, <1>17, <2>1, <2>3
  <2> QED
    BY <1>11, <1>14, <2>1, <2>4
<1>18. Len(some) = limit \/ Len(own) > ListLimit
          \/ \A i \in Records(user) : score[store[i].words] # 0 => i \in Play!Ids(some)
  BY <1>4, <1>16, <1>17 DEF Keeps
<1> QED
  BY <1>1, <1>9, <1>13, <1>15, <1>16, <1>18 DEF Keeps

LEMMA ScoresAre ==
    ASSUME NEW hits \in Seq(PlayHit)
    PROVE  Play!Scores(hits) \in SUBSET Int /\ IsFiniteSet(Play!Scores(hits))
<1>1. PICK mark : mark = [n \in DOMAIN hits |-> hits[n].score]
  OBVIOUS
<1>2. \A n \in DOMAIN hits : mark[n] \in Int
  <2>1. \A n \in DOMAIN hits : hits[n] \in PlayHit
    OBVIOUS
  <2> QED
    BY <1>1, <2>1 DEF PlayHit
<1>3. Play!Scores(hits) = {mark[n] : n \in DOMAIN hits}
  BY <1>1 DEF Play!Scores
<1>4. mark \in Surjection(DOMAIN hits, Play!Scores(hits))
  BY <1>1, <1>3 DEF Surjection
<1>5. IsFiniteSet(DOMAIN hits)
  <2>1. DOMAIN hits = 1..Len(hits) /\ Len(hits) \in Nat
    OBVIOUS
  <2> QED
    BY <2>1, FS_Interval
<1> QED
  BY <1>2, <1>3, <1>4, <1>5, FS_Surjection

LEMMA NormalizedIs ==
    ASSUME NEW hits \in Seq(PlayHit), NEW id
    PROVE  Play!Normalized(hits, id) \in Int
<1>1. CASE id \notin Play!Ids(hits)
  BY <1>1 DEF Play!Normalized
<1>2. CASE id \in Play!Ids(hits)
  <2>1. PICK low, high, n : /\ low = Play!Min(Play!Scores(hits)) /\ high = Play!Max(Play!Scores(hits))
                            /\ n = CHOOSE i \in DOMAIN hits : hits[i].id = id
    OBVIOUS
  <2>2. n \in DOMAIN hits
    BY <1>2, <2>1 DEF Play!Ids
  <2>3. hits[n].score \in Play!Scores(hits)
    BY <2>2 DEF Play!Scores
  <2>4. low \in Int /\ high \in Int /\ low <= hits[n].score /\ hits[n].score <= high /\ hits[n].score \in Int
    <3>1. Play!Scores(hits) # {}
      BY <2>3
    <3>2. low \in Play!Scores(hits) /\ \A x \in Play!Scores(hits) : low <= x
      BY <2>1, <3>1, ScoresAre, LeastOfSome
    <3>3. high \in Play!Scores(hits) /\ \A x \in Play!Scores(hits) : x <= high
      BY <2>1, <3>1, ScoresAre, GreatestOfSome
    <3> QED
      BY <2>3, <3>2, <3>3, ScoresAre
  <2>5. Play!Normalized(hits, id)
          = IF low = high THEN 100 ELSE (100 * (hits[n].score - low)) \div (high - low)
    <3>1. Play!Normalized(hits, id)
            = IF Play!Min(Play!Scores(hits)) = Play!Max(Play!Scores(hits)) THEN 100
              ELSE (100 * (hits[CHOOSE i \in DOMAIN hits : hits[i].id = id].score - Play!Min(Play!Scores(hits))))
                     \div (Play!Max(Play!Scores(hits)) - Play!Min(Play!Scores(hits)))
      BY <1>2, Zenon DEF Play!Normalized
    <3> QED
      BY <2>1, <3>1, Zenon
  <2>6. low # high => (100 * (hits[n].score - low)) \div (high - low) \in Int
    BY <2>4
  <2> QED
    BY <2>5, <2>6
<1> QED
  BY <1>1, <1>2

\* Of the records of both lists as many as were asked for, or all.
LEMMA MergedIs ==
    ASSUME NEW records, NEW dense, Once(dense, records), NEW lexical, Once(lexical, records),
           NEW limit \in Nat, NEW weight \in Int
    PROVE  /\ Once(Play!Merged(dense, lexical, limit, weight), records)
           /\ Keeps(Play!Merged(dense, lexical, limit, weight), dense, limit)
<1>1. PICK places : places = {n \in DOMAIN lexical : lexical[n].id \notin Play!Ids(dense)}
  OBVIOUS
<1>2. PICK new : new = Play!At(lexical, places)
  OBVIOUS
<1>3. /\ Once(new, records) /\ new \in Seq(PlayHit)
      /\ \A n \in DOMAIN new : new[n].id \notin Play!Ids(dense)
  <2>1. places \in SUBSET DOMAIN lexical
    BY <1>1
  <2>2. Once(new, records)
    BY <1>2, <2>1, AtOnce
  <2>3. Drawn(new, lexical, places)
    BY <1>2, <2>1, AtIs DEF Once
  <2>4. PICK f \in [DOMAIN new -> places] : \A n \in DOMAIN new : new[n] = lexical[f[n]]
    BY <2>3 DEF Drawn
  <2> QED
    BY <1>1, <2>2, <2>4 DEF Once
<1>4. PICK all : all = dense \o new
  OBVIOUS
<1>5. /\ Once(all, records) /\ Len(dense) <= Len(all) /\ Play!Ids(dense) \subseteq Play!Ids(all)
      /\ all \in Seq(PlayHit)
  <2>1. /\ Once(all, records) /\ Len(dense) <= Len(all) /\ Play!Ids(dense) \subseteq Play!Ids(all)
    BY <1>3, <1>4, JoinedOnce
  <2> QED
    BY <2>1 DEF Once
<1>6. PICK mark : mark = [n \in DOMAIN all |-> (Play!Normalized(dense, all[n].id) * weight
                            + Play!Normalized(lexical, all[n].id) * (100 - weight)) \div 100]
  OBVIOUS
<1>7. \A n \in DOMAIN all : mark[n] \in Int
  <2>1. TAKE n \in DOMAIN all
  <2>2. PICK a, b : a = Play!Normalized(dense, all[n].id) /\ b = Play!Normalized(lexical, all[n].id)
    OBVIOUS
  <2>3. a \in Int /\ b \in Int
    BY <2>2, NormalizedIs DEF Once
  <2>4. (a * weight + b * (100 - weight)) \in Int
    BY <2>3
  <2>5. (a * weight + b * (100 - weight)) \div 100 \in Int
    BY <2>4
  <2> QED
    BY <1>6, <2>2, <2>5
<1>8. PICK scored : scored = [n \in DOMAIN all |-> Play!Hit(all[n].id, mark[n])]
  OBVIOUS
<1>9. Play!Merged(dense, lexical, limit, weight) = Play!Best(scored, limit)
  <2>1. scored = [n \in DOMAIN all |->
                    Play!Hit(all[n].id, (Play!Normalized(dense, all[n].id) * weight
                                + Play!Normalized(lexical, all[n].id) * (100 - weight)) \div 100)]
    BY <1>6, <1>8
  <2> QED
    BY <1>1, <1>2, <1>4, <2>1, Zenon DEF Play!Merged
<1>10. /\ scored \in Seq(PlayHit) /\ DOMAIN scored = DOMAIN all
       /\ \A n \in DOMAIN all : scored[n].id = all[n].id
  <2>1. \A n \in DOMAIN all : /\ all[n].id \in Nat
                              /\ scored[n] = Play!Hit(all[n].id, mark[n])
    <3>1. \A n \in DOMAIN all : all[n] \in PlayHit
      BY <1>5
    <3> QED
      BY <1>8, <3>1 DEF PlayHit
  <2>2. \A n \in DOMAIN all : scored[n] \in PlayHit /\ scored[n].id = all[n].id
    <3> TAKE n \in DOMAIN all
    <3>1. scored[n] = [id |-> all[n].id, score |-> mark[n]]
      BY <2>1 DEF Play!Hit
    <3> QED
      BY <1>7, <2>1, <3>1 DEF PlayHit
  <2>3. DOMAIN scored = DOMAIN all
    BY <1>8
  <2>4. scored \in Seq(PlayHit)
    BY <1>5, <1>8, <2>2
  <2> QED
    BY <2>2, <2>3, <2>4
<1>11. /\ Once(scored, records) /\ Len(dense) <= Len(scored) /\ Play!Ids(dense) \subseteq Play!Ids(scored)
  <2>1. Once(scored, records) /\ Play!Ids(scored) = Play!Ids(all) /\ Len(scored) = Len(all)
    BY <1>5, <1>10, ScoredOnce
  <2> QED
    BY <1>5, <2>1
<1>12. PICK some : some = Play!Best(scored, limit)
  OBVIOUS
<1>13. Once(some, records) /\ Keeps(some, scored, limit)
  BY <1>11, <1>12, BestKeeps
<1>14. Len(dense) \in Nat /\ Len(scored) \in Nat /\ Len(some) \in Nat
  BY <1>10, <1>13 DEF Once
<1>15. Keeps(some, dense, limit)
  BY <1>11, <1>13, <1>14 DEF Keeps
<1> QED
  BY <1>9, <1>12, <1>13, <1>15

LEMMA RerankedIs ==
    ASSUME StoreOK, NEW user, NEW q, q.bonus \in [Words -> Int], NEW limit \in Nat,
           NEW hits, Once(hits, Records(user))
    PROVE  /\ Once(Play!Reranked(hits, q, limit), Records(user))
           /\ Keeps(Play!Reranked(hits, q, limit), hits, limit)
<1>1. PICK scored : scored = [n \in DOMAIN hits |->
          [hits[n] EXCEPT !.score = @ + q.bonus[store[hits[n].id].words]]]
  OBVIOUS
<1>2. Play!Reranked(hits, q, limit) = Play!Best(scored, limit)
  BY <1>1, Zenon DEF Play!Reranked
<1>3. hits \in Seq(PlayHit)
  BY DEF Once
<1>4. ASSUME NEW n \in DOMAIN hits
      PROVE  scored[n] \in PlayHit /\ scored[n].id = hits[n].id
  <2>1. hits[n] \in PlayHit /\ hits[n].id \in DOMAIN store
    BY <1>3 DEF Once, Records
  <2>2. store[hits[n].id] \in PlayRecord
    BY <2>1 DEF StoreOK
  <2>3. q.bonus[store[hits[n].id].words] \in Int
    BY <2>2 DEF PlayRecord
  <2>4. scored[n] = [hits[n] EXCEPT !.score = hits[n].score + q.bonus[store[hits[n].id].words]]
    BY <1>1
  <2> QED
    BY <2>1, <2>3, <2>4 DEF PlayHit
<1>5. DOMAIN scored = DOMAIN hits /\ scored \in Seq(PlayHit)
  <2>1. DOMAIN scored = 1..Len(hits) /\ Len(hits) \in Nat /\ DOMAIN hits = 1..Len(hits)
    BY <1>1, <1>3
  <2>2. scored \in [1..Len(hits) -> PlayHit]
    <3>1. scored = [n \in DOMAIN hits |-> scored[n]]
      BY <1>1
    <3> QED
      BY <1>4, <2>1, <3>1
  <2> QED
    BY <2>1, <2>2
<1>6. Once(scored, Records(user)) /\ Play!Ids(scored) = Play!Ids(hits) /\ Len(scored) = Len(hits)
  BY <1>4, <1>5, ScoredOnce
<1>7. PICK some : some = Play!Best(scored, limit)
  OBVIOUS
<1>8. Once(some, Records(user)) /\ Keeps(some, scored, limit)
  BY <1>6, <1>7, BestKeeps
<1> QED
  BY <1>2, <1>6, <1>7, <1>8 DEF Keeps

-----------------------------------------------------------------------------
(* Cutting a document (Playground).                                        *)

LEMMA ChunkCountIs ==
    ASSUME NEW n \in Nat
    PROVE  /\ Play!ChunkCount(n) \in Nat
           /\ n > 0 => Play!ChunkCount(n) >= 1 /\ (Play!ChunkCount(n) - 1) * Play!Step + MaxTokens >= n
<1>1. PICK step : step = Play!Step /\ step \in Nat /\ step >= 1 /\ step <= MaxTokens /\ MaxTokens \in Nat
  BY PlayAssumption DEF Play!Step
<1>2. CASE n = 0
  BY <1>2 DEF Play!ChunkCount
<1>3. CASE n > 0
  <2>1. PICK enough : enough = {k \in 1..n : (k - 1) * step + MaxTokens >= n}
    OBVIOUS
  <2>2. (n - 1) * step + MaxTokens >= n
    <3>1. (n - 1) * step >= n - 1
      <4>1. PICK a, b : a = n - 1 /\ b = step - 1 /\ a \in Nat /\ b \in Nat
        BY <1>1, <1>3
      <4>2. a * b \in Nat
        BY <4>1
      <4>3. (n - 1) * step = a * b + a
        BY <1>1, <4>1
      <4> QED
        BY <4>1, <4>2, <4>3
    <3>2. (n - 1) * step \in Int
      BY <1>1
    <3> QED
      BY <1>1, <3>1, <3>2
  <2>3. enough \in SUBSET Nat /\ n \in enough
    BY <1>3, <2>1, <2>2
  <2>4. PICK k \in enough : \A j \in enough : k <= j
    BY <2>3, LeastNatural
  <2>5. Play!Min(enough) \in enough
    BY <2>4 DEF Play!Min
  <2>6. Play!ChunkCount(n) = Play!Min(enough)
    BY <1>1, <1>3, <2>1 DEF Play!ChunkCount
  <2> QED
    BY <1>1, <2>1, <2>5, <2>6
<1> QED
  BY <1>2, <1>3

Chunk == [from : Nat, to : Nat]

\* Every token is in a chunk.
LEMMA ChunksCover ==
    ASSUME NEW doc \in Play!Document
    PROVE  /\ Play!Chunks(doc) \in Seq(Chunk)
           /\ \A token \in 1..doc.tokens : \E k \in DOMAIN Play!Chunks(doc) :
                 Play!Chunks(doc)[k].from < token /\ token <= Play!Chunks(doc)[k].to
<1>1. PICK step, n, N, cut : /\ step = Play!Step /\ n = doc.tokens /\ N = Play!ChunkCount(n)
                             /\ cut = Play!Chunks(doc)
  OBVIOUS
<1>2. step \in Nat /\ step >= 1 /\ step <= MaxTokens /\ MaxTokens \in Nat
  BY <1>1, PlayAssumption DEF Play!Step
<1>3. n \in Nat /\ N \in Nat /\ (n > 0 => N >= 1 /\ (N - 1) * step + MaxTokens >= n)
  <2>1. n \in Nat
    BY <1>1 DEF Play!Document
  <2> QED
    BY <1>1, <2>1, ChunkCountIs
<1>4. PICK begin : begin = [i \in 1..N |-> (i - 1) * step]
  OBVIOUS
<1>5. \A i \in 1..N : begin[i] \in Nat /\ begin[i] = (i - 1) * step
  <2>1. TAKE i \in 1..N
  <2>2. PICK a : a = i - 1 /\ a \in Nat
    BY <1>3
  <2>3. a * step \in Nat
    BY <1>2, <2>2
  <2> QED
    BY <1>4, <2>2, <2>3
<1>6. cut = [i \in 1..N |-> [from |-> begin[i], to |-> Play!Min({begin[i] + MaxTokens, n})]]
  BY <1>1, <1>4 DEF Play!Chunks
<1>7. \A i \in 1..N : /\ cut[i] \in Chunk /\ cut[i].from = begin[i]
                      /\ cut[i].to = IF begin[i] + MaxTokens <= n THEN begin[i] + MaxTokens ELSE n
  <2>1. TAKE i \in 1..N
  <2>2. cut[i] = [from |-> begin[i], to |-> Play!Min({begin[i] + MaxTokens, n})]
    BY <1>6
  <2>3. Play!Min({begin[i] + MaxTokens, n}) = IF begin[i] + MaxTokens <= n THEN begin[i] + MaxTokens ELSE n
    BY <1>2, <1>3, <1>5, LeastOfTwo
  <2> QED
    BY <1>2, <1>3, <1>5, <2>2, <2>3 DEF Chunk
<1>8. cut \in Seq(Chunk) /\ DOMAIN cut = 1..N
  BY <1>3, <1>6, <1>7
<1>9. ASSUME NEW token \in 1..n
      PROVE  \E k \in DOMAIN cut : cut[k].from < token /\ token <= cut[k].to
  <2>1. PICK reach : reach = {k \in 1..N : token <= begin[k] + MaxTokens}
    OBVIOUS
  <2>2. reach \in SUBSET Nat /\ reach # {}
    <3>1. n > 0 /\ token \in Nat /\ token <= n
      BY <1>3
    <3>2. N # 0
      BY <1>3, <3>1
    <3>3. N \in 1..N /\ begin[N] + MaxTokens >= n
      BY <1>3, <1>5, <3>1, <3>2
    <3>4. N \in reach
      BY <1>2, <1>3, <1>5, <2>1, <3>1, <3>3
    <3> QED
      BY <1>3, <2>1, <3>4
  <2>3. PICK k \in reach : \A j \in reach : k <= j
    BY <2>2, LeastNatural
  <2>4. k \in 1..N /\ token <= begin[k] + MaxTokens /\ token \in Nat /\ token <= n
    BY <1>3, <2>1, <2>3
  <2>5. begin[k] < token
    <3>1. CASE k = 1
      BY <1>2, <1>5, <2>4, <3>1
    <3>2. CASE k # 1
      <4>1. k - 1 \in 1..N /\ k - 1 \notin reach
        BY <1>3, <2>2, <2>3, <2>4, <3>2
      <4>2. begin[k - 1] + MaxTokens < token
        BY <1>2, <1>5, <2>1, <2>4, <4>1
      <4>3. begin[k] = begin[k - 1] + step
        BY <1>2, <1>3, <1>5, <2>4, <4>1
      <4> QED
        BY <1>2, <1>5, <2>4, <4>1, <4>2, <4>3
    <3> QED
      BY <3>1, <3>2
  <2> QED
    BY <1>2, <1>3, <1>5, <1>7, <1>8, <2>4, <2>5
<1> QED
  BY <1>1, <1>8, <1>9

-----------------------------------------------------------------------------
(* The invariant of the playground.                                        *)

Policies == Play!Strategies \cup {"abstain_low_confidence", "compressed_context"}

Uploading == {"chunk", "store"}
Querying  == {"select", "search", "merge", "rerank", "correct", "answer", "judge"}

PlayUpload == [owner : Users, upload : Nat \X Nat, tokens : Nat, words : Words]

PlayRequest ==
    [pc : {"idle"} \cup Uploading \cup Querying, user : Users \cup {None}, no : Nat,
     left : Seq(Play!Document) \cup Seq(Play!Strategies), query : Queries \cup {None}, k : Nat,
     compare : BOOLEAN, seen : SUBSET PlayUpload, policy : Policies \cup {None},
     strategy : Play!Strategies \cup {None}, limit : Nat, dense : Seq(PlayHit), retrieved : Seq(PlayHit)]

PlayTrace ==
    [no : Nat, user : Users, k : Nat, asked : Play!Strategies, policy : Policies \cup {None},
     strategy : Play!Strategies \cup {None}, limit : Nat, query : Queries, seen : SUBSET PlayUpload,
     retrieved : Seq(PlayHit), context : SUBSET Nat, citations : SUBSET Nat, evaluated : BOOLEAN]

\* A record has a word of a document.
HasWord(i, u, token) ==
    /\ store[i].words = u.words /\ store[i].upload = u.upload
    /\ store[i].from < token /\ token <= store[i].to

\* Every word of these documents is in one of these records.
Covered(seen, records) ==
    \A u \in seen : \A token \in 1..u.tokens : \E i \in records : HasWord(i, u, token)

Enough(hits, limit, seen) == Len(hits) >= limit \/ Covered(seen, Play!Ids(hits))

\* What a request has retrieved: of the user's records, and nothing is missed.
NothingMissed(t) ==
    \A u \in t.seen : \A token \in 1..u.tokens :
        \/ Len(t.retrieved) = t.limit
        \/ t.strategy = "bm25_top_k" /\ (Len(Play!Own(t.user)) > ListLimit \/ t.query.lexical[u.words] = 0)
        \/ \E i \in Play!Ids(t.retrieved) : HasWord(i, u, token)

Answerable(t) ==
    /\ Once(t.retrieved, Records(t.user)) /\ Len(t.retrieved) <= t.limit
    /\ NothingMissed(t)

RequestOK(r) ==
    /\ r.pc \in Uploading => r.user \in Users /\ r.left \in Seq(Play!Document) \ {<<>>}
    /\ r.pc \in Querying => /\ r.user \in Users /\ r.query \in Queries
                            /\ r.left \in Seq(Play!Strategies) \ {<<>>}
                            /\ Covered(r.seen, Records(r.user))
    /\ r.pc = "search" => r.strategy \in Play!Strategies
    /\ r.pc \in {"merge", "rerank", "correct"} =>
          Once(r.dense, Records(r.user)) /\ Enough(r.dense, r.limit, r.seen)
    /\ r.pc = "answer" => Answerable(r)

TraceOK(t) ==
    /\ Answerable(t)
    /\ t.citations \subseteq t.context /\ t.context \subseteq Play!Ids(t.retrieved)
    /\ t.policy = "abstain_low_confidence" => t.context = {}

PlayInv ==
    /\ StoreOK
    /\ uploads \in SUBSET PlayUpload /\ begun \in Nat
    /\ \A u \in uploads : Covered({u}, Records(u.owner))
    /\ request \in [Workers -> PlayRequest]
    /\ \A w \in Workers : \A r \in {request[w]} : RequestOK(r)
    /\ replied \in SUBSET PlayTrace
    /\ \A t \in replied : TraceOK(t)

-----------------------------------------------------------------------------
(* The store only grows.                                                   *)

Stays == \A i \in DOMAIN store : i \in DOMAIN store' /\ store'[i] = store[i]

LEMMA OnceMore ==
    ASSUME NEW records, NEW more, records \subseteq more, NEW hits, Once(hits, records)
    PROVE  Once(hits, more)
BY DEF Once

LEMMA RecordsStay ==
    ASSUME Stays
    PROVE  \A user : Records(user) \subseteq Records(user)'
BY DEF Stays, Records

LEMMA OwnLength ==
    StoreOK => \A user : Len(Play!Own(user)) = Cardinality(Records(user)) /\ IsFiniteSet(Records(user))
BY OwnIs, RecordsAreFinite

LEMMA OwnGrows ==
    ASSUME Stays, StoreOK, StoreOK'
    PROVE  \A user : /\ Len(Play!Own(user)) <= Len(Play!Own(user))'
                     /\ Len(Play!Own(user)) \in Nat /\ Len(Play!Own(user))' \in Nat
<1>1. (StoreOK => \A user : Len(Play!Own(user)) = Cardinality(Records(user)) /\ IsFiniteSet(Records(user)))'
  BY OwnLength, PTL
<1>2. \A user : /\ Len(Play!Own(user))' = Cardinality(Records(user)') /\ IsFiniteSet(Records(user)')
                /\ Len(Play!Own(user)) = Cardinality(Records(user)) /\ IsFiniteSet(Records(user))
                /\ Records(user) \subseteq Records(user)'
  BY <1>1, OwnLength, RecordsStay
<1> QED
  BY <1>2, FS_Subset, FS_CardinalityType

LEMMA WordsStay ==
    ASSUME Stays, NEW records, records \subseteq DOMAIN store, NEW u, NEW token
    PROVE  \A i \in records : HasWord(i, u, token) => HasWord(i, u, token)'
BY DEF Stays, HasWord

LEMMA CoveredStays ==
    ASSUME Stays, NEW seen, NEW records, records \subseteq DOMAIN store, Covered(seen, records),
           NEW more, records \subseteq more
    PROVE  Covered(seen, more)'
<1> SUFFICES ASSUME NEW u \in seen, NEW token \in 1..u.tokens
             PROVE  \E i \in more : HasWord(i, u, token)'
  BY DEF Covered
<1>1. PICK i \in records : HasWord(i, u, token)
  BY DEF Covered
<1>2. HasWord(i, u, token)'
  BY <1>1, WordsStay
<1> QED
  BY <1>1, <1>2

\* The records of some hits are in the store.
LEMMA IdsAreRecords ==
    ASSUME NEW user, NEW hits, Once(hits, Records(user))
    PROVE  Play!Ids(hits) \subseteq Records(user) /\ Play!Ids(hits) \subseteq DOMAIN store
BY DEF Once, Play!Ids, Records

LEMMA FoundStays ==
    ASSUME Stays, StoreOK, StoreOK', NEW t, Answerable(t)
    PROVE  Answerable(t)'
<1>1. PICK hits, user : hits = t.retrieved /\ user = t.user
  OBVIOUS
<1>2. Once(hits, Records(user)) /\ Len(hits) <= t.limit /\ Records(user) \subseteq Records(user)'
  BY <1>1, RecordsStay DEF Answerable
<1>3. Once(hits, Records(user)')
  BY <1>2, OnceMore
<1>4. Play!Ids(hits) \subseteq DOMAIN store
  BY <1>2, IdsAreRecords
<1>5. ASSUME NEW u \in t.seen, NEW token \in 1..u.tokens
      PROVE  \/ Len(hits) = t.limit
             \/ t.strategy = "bm25_top_k" /\ (Len(Play!Own(user))' > ListLimit \/ t.query.lexical[u.words] = 0)
             \/ \E i \in Play!Ids(hits) : HasWord(i, u, token)'
  <2>1. \/ Len(hits) = t.limit
        \/ t.strategy = "bm25_top_k" /\ (Len(Play!Own(user)) > ListLimit \/ t.query.lexical[u.words] = 0)
        \/ \E i \in Play!Ids(hits) : HasWord(i, u, token)
    BY <1>1 DEF Answerable, NothingMissed
  <2>2. Len(Play!Own(user)) > ListLimit => Len(Play!Own(user))' > ListLimit
    BY OwnGrows, PlayAssumption
  <2>3. \A i \in Play!Ids(hits) : HasWord(i, u, token) => HasWord(i, u, token)'
    BY <1>4, WordsStay
  <2> QED
    BY <2>1, <2>2, <2>3
<1>6. NothingMissed(t)'
  BY <1>1, <1>5 DEF NothingMissed
<1> QED
  BY <1>1, <1>2, <1>3, <1>6 DEF Answerable

LEMMA RequestStays ==
    ASSUME Stays, StoreOK, StoreOK', NEW r, RequestOK(r)
    PROVE  RequestOK(r)'
<1>1. ASSUME r.pc \in Querying PROVE Covered(r.seen, Records(r.user))'
  <2>1. PICK user : user = r.user
    OBVIOUS
  <2>2. Covered(r.seen, Records(user))
    BY <1>1, <2>1 DEF RequestOK
  <2>3. Records(user) \subseteq Records(user)' /\ Records(user) \subseteq DOMAIN store
    BY RecordsStay DEF Records
  <2>4. Covered(r.seen, Records(user))'
    BY <2>2, <2>3 DEF Covered, HasWord, Stays
  <2> QED
    BY <2>1, <2>4
<1>2. ASSUME r.pc \in {"merge", "rerank", "correct"}
      PROVE  Once(r.dense, Records(r.user))' /\ Enough(r.dense, r.limit, r.seen)'
  <2>1. PICK hits, user : hits = r.dense /\ user = r.user
    OBVIOUS
  <2>2. Once(hits, Records(user)) /\ Enough(hits, r.limit, r.seen)
    BY <1>2, <2>1 DEF RequestOK
  <2>3. Once(hits, Records(user)') /\ Play!Ids(hits) \subseteq DOMAIN store
    BY <2>2, OnceMore, RecordsStay, IdsAreRecords
  <2>4. Enough(hits, r.limit, r.seen)'
    BY <2>2, <2>3, CoveredStays DEF Enough
  <2> QED
    BY <2>1, <2>3, <2>4
<1>3. r.pc = "answer" => Answerable(r)'
  BY FoundStays DEF RequestOK
<1> QED
  BY <1>1, <1>2, <1>3 DEF RequestOK

LEMMA TraceStays ==
    ASSUME Stays, StoreOK, StoreOK', NEW t, TraceOK(t)
    PROVE  TraceOK(t)'
BY FoundStays DEF TraceOK

LEMMA SameStore ==
    ASSUME store' = store
    PROVE  Stays /\ StoreOK' = StoreOK
BY DEF Stays, StoreOK

-----------------------------------------------------------------------------
(* The steps of a request.                                                 *)

LEMMA RequestGoes ==
    ASSUME PlayInv, NEW w \in Workers, NEW r \in PlayRequest, Play!Goes(w, r), RequestOK(r)',
           Stays, StoreOK'
    PROVE  /\ request' \in [Workers -> PlayRequest]
           /\ \A v \in Workers : \A s \in {request'[v]} : RequestOK(s)'
<1>1. request' = [request EXCEPT ![w] = r] /\ request \in [Workers -> PlayRequest]
  BY DEF Play!Goes, PlayInv
<1>2. request' \in [Workers -> PlayRequest]
  BY <1>1
<1>3. ASSUME NEW v \in Workers, NEW s, s = request'[v] PROVE RequestOK(s)'
  <2>1. CASE v = w
    BY <1>1, <1>3, <2>1
  <2>2. CASE v # w
    <3>1. s = request[v]
      BY <1>1, <1>3, <2>2
    <3>2. RequestOK(s)
      BY <3>1 DEF PlayInv
    <3> QED
      BY <3>2, RequestStays DEF PlayInv
  <2> QED
    BY <2>1, <2>2
<1> QED
  BY <1>2, <1>3

\* A step that only moves a request.
LEMMA Moves ==
    ASSUME PlayInv, NEW w \in Workers, NEW r \in PlayRequest, Play!Goes(w, r), RequestOK(r),
           UNCHANGED <<store, uploads, replied>>, begun' \in Nat
    PROVE  PlayInv'
<1>1. Stays /\ StoreOK /\ StoreOK'
  BY SameStore DEF PlayInv
<1>2. RequestOK(r)'
  BY <1>1, RequestStays
<1>3. /\ request' \in [Workers -> PlayRequest]
      /\ \A v \in Workers : \A s \in {request'[v]} : RequestOK(s)'
  BY <1>1, <1>2, RequestGoes
<1>4. \A u \in uploads' : Covered({u}, Records(u.owner))'
  BY DEF PlayInv, Covered, Records, HasWord
<1>5. \A t \in replied' : TraceOK(t)'
  BY <1>1, TraceStays DEF PlayInv
<1> QED
  BY <1>1, <1>3, <1>4, <1>5 DEF PlayInv

LEMMA RequestIs ==
    ASSUME PlayInv, NEW w \in Workers, NEW r, r = request[w]
    PROVE  r \in PlayRequest /\ RequestOK(r)
BY DEF PlayInv

LEMMA NoRequestIs ==
    Play!NoRequest \in PlayRequest /\ RequestOK(Play!NoRequest)
<1>1. Play!NoRequest \in PlayRequest
  BY DEF Play!NoRequest, PlayRequest
<1>2. RequestOK(Play!NoRequest)
  BY DEF Play!NoRequest, RequestOK, Uploading, Querying
<1> QED
  BY <1>1, <1>2

LEMMA EndsStep ==
    ASSUME PlayInv, NEW w \in Workers, Play!Ends(w), UNCHANGED <<store, uploads, replied, begun>>
    PROVE  PlayInv'
BY NoRequestIs, Moves DEF Play!Ends, PlayInv

LEMMA PlayInit ==
    Play!Init => PlayInv
<1> SUFFICES ASSUME Play!Init PROVE PlayInv
  OBVIOUS
<1>1. StoreOK /\ uploads \in SUBSET PlayUpload /\ begun \in Nat /\ replied \in SUBSET PlayTrace
  BY DEF Play!Init, StoreOK
<1>2. request \in [Workers -> PlayRequest]
  BY NoRequestIs DEF Play!Init
<1>3. \A w \in Workers : \A r \in {request[w]} : RequestOK(r)
  BY NoRequestIs DEF Play!Init
<1>4. /\ \A u \in uploads : Covered({u}, Records(u.owner))
      /\ \A t \in replied : TraceOK(t)
  BY DEF Play!Init
<1> QED
  BY <1>1, <1>2, <1>3, <1>4 DEF PlayInv

\* What is left of a list of more than one.
LEMMA RestIs ==
    ASSUME NEW S, NEW list \in Seq(S), list # <<>>, Len(list) # 1
    PROVE  Tail(list) \in Seq(S) /\ Tail(list) # <<>>
<1>1. Len(list) \in Nat /\ Len(list) # 0
  BY EmptySeq
<1>2. Tail(list) \in Seq(S) /\ Len(Tail(list)) = Len(list) - 1
  BY <1>1, HeadTailProperties
<1>3. Len(Tail(list)) # 0
  BY <1>1, <1>2
<1> QED
  BY <1>2, <1>3, EmptySeq

LEMMA BeginUploadStep ==
    ASSUME PlayInv, NEW w \in Workers, Play!BeginUpload(w)
    PROVE  PlayInv'
<1>1. PICK user \in Users, list \in {<<d>> : d \in Documents} \cup Samples :
         Play!Goes(w, [Play!NoRequest EXCEPT !.pc = "chunk", !.user = user, !.left = list, !.no = begun + 1])
  BY DEF Play!BeginUpload
<1>2. list \in Seq(Play!Document) \ {<<>>}
  <2>1. CASE list \in Samples
    BY <2>1, PlayAssumption
  <2>2. ASSUME NEW d \in Documents, list = <<d>> PROVE list \in Seq(Play!Document) \ {<<>>}
    <3>1. d \in Play!Document
      BY PlayAssumption
    <3> QED
      BY <2>2, <3>1
  <2> QED
    BY <2>1, <2>2
<1>3. begun \in Nat /\ begun' = begun + 1 /\ UNCHANGED <<store, uploads, replied>>
  BY DEF Play!BeginUpload, PlayInv
<1>4. PICK r : r = [Play!NoRequest EXCEPT !.pc = "chunk", !.user = user, !.left = list, !.no = begun + 1]
  OBVIOUS
<1>5. r \in PlayRequest /\ r.pc = "chunk" /\ r.user = user /\ r.left = list
  <2>1. /\ begun + 1 \in Nat /\ user \in Users \cup {None} /\ "chunk" \in {"idle"} \cup Uploading \cup Querying
        /\ list \in Seq(Play!Document) \cup Seq(Play!Strategies)
    BY <1>2, <1>3 DEF Uploading
  <2>2. Play!NoRequest \in PlayRequest
    BY NoRequestIs
  <2> QED
    BY <1>4, <2>1, <2>2 DEF PlayRequest
<1>6. RequestOK(r)
  BY <1>2, <1>5 DEF RequestOK, Querying
<1> QED
  BY <1>1, <1>3, <1>4, <1>5, <1>6, Moves

LEMMA ChunkDocumentStep ==
    ASSUME PlayInv, NEW w \in Workers, Play!ChunkDocument(w)
    PROVE  PlayInv'
<1>1. PICK r : r = request[w]
  OBVIOUS
<1>2. r \in PlayRequest /\ RequestOK(r) /\ r.pc = "chunk"
  BY <1>1, RequestIs DEF Play!ChunkDocument
<1>3. UNCHANGED <<store, uploads, replied, begun>> /\ begun \in Nat
  BY DEF Play!ChunkDocument, PlayInv
<1>4. CASE Play!Ends(w)
  BY <1>3, <1>4, EndsStep
<1>5. CASE Play!Goes(w, [r EXCEPT !.pc = "store"])
  <2>1. PICK s : s = [r EXCEPT !.pc = "store"]
    OBVIOUS
  <2>2. s \in PlayRequest /\ s.pc = "store" /\ s.user = r.user /\ s.left = r.left
    BY <1>2, <2>1 DEF PlayRequest, Uploading
  <2>3. RequestOK(s)
    BY <1>2, <2>2 DEF RequestOK, Uploading, Querying
  <2> QED
    BY <1>3, <1>5, <2>1, <2>2, <2>3, Moves
<1> QED
  BY <1>1, <1>4, <1>5 DEF Play!ChunkDocument

LEMMA StoreChunksStep ==
    ASSUME PlayInv, NEW w \in Workers, Play!StoreChunks(w)
    PROVE  PlayInv'
<1>1. PICK r, doc, cut, upload : /\ r = request[w] /\ doc = r.left[1] /\ cut = Play!Chunks(doc)
                                 /\ upload = <<r.no, Len(r.left)>>
  OBVIOUS
<1>2. r \in PlayRequest /\ RequestOK(r) /\ r.pc = "store"
  BY <1>1, RequestIs DEF Play!StoreChunks
<1>3. /\ r.user \in Users /\ r.left \in Seq(Play!Document) /\ r.left # <<>> /\ Len(r.left) \in Nat /\ Len(r.left) >= 1
      /\ doc \in Play!Document /\ upload \in Nat \X Nat
  <2>1. r.user \in Users /\ r.left \in Seq(Play!Document) \ {<<>>}
    BY <1>2 DEF RequestOK, Uploading
  <2>2. r.no \in Nat
    BY <1>2 DEF PlayRequest
  <2> QED
    BY <1>1, <2>1, <2>2
<1>4. /\ cut \in Seq(Chunk)
      /\ \A token \in 1..doc.tokens : \E k \in DOMAIN cut : cut[k].from < token /\ token <= cut[k].to
  BY <1>1, <1>3, ChunksCover
<1>5. PICK more : more = [i \in DOMAIN cut |-> [owner |-> r.user, upload |-> upload, words |-> doc.words,
                                               from |-> cut[i].from, to |-> cut[i].to]]
  OBVIOUS
<1>6. PICK up : up = [owner |-> r.user, upload |-> upload, tokens |-> doc.tokens, words |-> doc.words]
  OBVIOUS
<1>7. /\ store' = store \o more /\ uploads' = uploads \cup {up} /\ UNCHANGED <<replied, begun>>
      /\ IF Len(r.left) = 1 THEN Play!Ends(w) ELSE Play!Goes(w, [r EXCEPT !.pc = "chunk", !.left = Tail(r.left)])
  BY <1>1, <1>5, <1>6 DEF Play!StoreChunks
<1>8. PICK N, M : N = Len(store) /\ M = Len(more)
  OBVIOUS
<1>9. /\ more \in Seq(PlayRecord) /\ DOMAIN more = DOMAIN cut
      /\ \A i \in DOMAIN cut : more[i] = [owner |-> r.user, upload |-> upload, words |-> doc.words,
                                          from |-> cut[i].from, to |-> cut[i].to]
  <2>1. doc.words \in Words
    BY <1>3 DEF Play!Document
  <2>2. \A i \in DOMAIN cut : cut[i].from \in Nat /\ cut[i].to \in Nat
    <3>1. \A i \in DOMAIN cut : cut[i] \in Chunk
      BY <1>4
    <3> QED
      BY <3>1 DEF Chunk
  <2>3. \A i \in DOMAIN cut : more[i] \in PlayRecord
    BY <1>3, <1>5, <2>1, <2>2 DEF PlayRecord
  <2> QED
    BY <1>4, <1>5, <2>3
<1>10. /\ N \in Nat /\ M \in Nat /\ DOMAIN store = 1..N /\ DOMAIN more = 1..M
       /\ store' \in Seq(PlayRecord) /\ DOMAIN store' = 1..(N + M)
       /\ \A i \in 1..N : store'[i] = store[i]
       /\ \A i \in 1..M : store'[N + i] = more[i]
  BY <1>7, <1>8, <1>9 DEF PlayInv, StoreOK
<1>11. Stays /\ StoreOK /\ StoreOK'
  BY <1>10 DEF Stays, StoreOK, PlayInv
<1>12. up \in PlayUpload
  BY <1>3, <1>6 DEF PlayUpload, Play!Document
<1>13. Covered({up}, Records(r.user))'
  <2>1. ASSUME NEW token \in 1..doc.tokens
        PROVE  \E i \in Records(r.user)' : HasWord(i, up, token)'
    <3>1. PICK k \in DOMAIN cut : cut[k].from < token /\ token <= cut[k].to
      BY <1>4
    <3>2. N + k \in DOMAIN store' /\ store'[N + k] = more[k]
      BY <1>9, <1>10, <3>1
    <3>3. N + k \in Records(r.user)'
      BY <1>9, <3>2 DEF Records
    <3>4. HasWord(N + k, up, token)'
      BY <1>6, <1>9, <3>1, <3>2 DEF HasWord
    <3> QED
      BY <3>3, <3>4
  <2> QED
    BY <1>6, <2>1 DEF Covered
<1>14. ASSUME NEW u \in uploads' PROVE Covered({u}, Records(u.owner))'
  <2>1. CASE u \in uploads
    <3>1. PICK user : user = u.owner
      OBVIOUS
    <3>2. Covered({u}, Records(user)) /\ Records(user) \subseteq DOMAIN store /\ Records(user) \subseteq Records(user)'
      BY <2>1, <3>1, <1>11, RecordsStay DEF PlayInv, Records
    <3>3. Covered({u}, Records(user))'
      BY <3>2, <1>11 DEF Covered, HasWord, Stays
    <3> QED
      BY <3>1, <3>3
  <2>2. CASE u = up
    BY <1>6, <1>13, <2>2
  <2> QED
    BY <1>7, <2>1, <2>2
<1>15. PICK s : s = IF Len(r.left) = 1 THEN Play!NoRequest ELSE [r EXCEPT !.pc = "chunk", !.left = Tail(r.left)]
  OBVIOUS
<1>16. Play!Goes(w, s)
  BY <1>7, <1>15 DEF Play!Ends
<1>17. s \in PlayRequest /\ RequestOK(s)
  <2>1. CASE Len(r.left) = 1
    BY <1>15, <2>1, NoRequestIs
  <2>2. CASE Len(r.left) # 1
    <3>1. Tail(r.left) \in Seq(Play!Document) /\ Tail(r.left) # <<>>
      BY <1>3, <2>2, RestIs
    <3>2. s \in PlayRequest /\ s.pc = "chunk" /\ s.user = r.user /\ s.left = Tail(r.left)
      <4>1. /\ "chunk" \in {"idle"} \cup Uploading \cup Querying
            /\ Tail(r.left) \in Seq(Play!Document) \cup Seq(Play!Strategies)
        BY <3>1 DEF Uploading
      <4>2. s = [r EXCEPT !.pc = "chunk", !.left = Tail(r.left)]
        BY <1>15, <2>2
      <4> QED
        BY <1>2, <4>1, <4>2 DEF PlayRequest
    <3>3. RequestOK(s)
      BY <1>3, <3>1, <3>2 DEF RequestOK, Querying
    <3> QED
      BY <3>2, <3>3
  <2> QED
    BY <2>1, <2>2
<1>18. /\ request' \in [Workers -> PlayRequest]
       /\ \A v \in Workers : \A z \in {request'[v]} : RequestOK(z)'
  BY <1>11, <1>16, <1>17, RequestStays, RequestGoes
<1>19. \A t \in replied' : TraceOK(t)'
  BY <1>7, <1>11, TraceStays DEF PlayInv
<1> QED
  BY <1>7, <1>11, <1>12, <1>14, <1>18, <1>19 DEF PlayInv

LEMMA BeginQueryStep ==
    ASSUME PlayInv, NEW w \in Workers, Play!BeginQuery(w)
    PROVE  PlayInv'
<1>1. PICK user \in Users, q \in Queries, k \in TopKs, kind \in
            {[left |-> <<s>>, compare |-> FALSE] : s \in Play!Strategies}
              \cup {[left |-> list, compare |-> TRUE] : list \in Comparisons} :
         Play!Goes(w, [Play!NoRequest EXCEPT !.pc = "select", !.user = user, !.query = q, !.k = k,
                                    !.no = begun + 1, !.left = kind.left, !.compare = kind.compare,
                                    !.seen = {u \in uploads : u.owner = user}])
  BY DEF Play!BeginQuery
<1>2. kind.left \in Seq(Play!Strategies) \ {<<>>} /\ kind.compare \in BOOLEAN
  <2>1. ASSUME NEW s \in Play!Strategies, kind = [left |-> <<s>>, compare |-> FALSE]
        PROVE  kind.left \in Seq(Play!Strategies) \ {<<>>} /\ kind.compare \in BOOLEAN
    BY <2>1
  <2>2. ASSUME NEW list \in Comparisons, kind = [left |-> list, compare |-> TRUE]
        PROVE  kind.left \in Seq(Play!Strategies) \ {<<>>} /\ kind.compare \in BOOLEAN
    BY <2>2, PlayAssumption
  <2> QED
    BY <2>1, <2>2
<1>3. PICK seen : seen = {u \in uploads : u.owner = user}
  OBVIOUS
<1>4. seen \in SUBSET PlayUpload /\ Covered(seen, Records(user))
  <2>1. seen \in SUBSET PlayUpload
    BY <1>3 DEF PlayInv
  <2>2. \A u \in seen : Covered({u}, Records(user))
    BY <1>3 DEF PlayInv
  <2> QED
    BY <2>1, <2>2 DEF Covered
<1>5. begun \in Nat /\ begun' = begun + 1 /\ UNCHANGED <<store, uploads, replied>>
  BY DEF Play!BeginQuery, PlayInv
<1>6. PICK r : r = [Play!NoRequest EXCEPT !.pc = "select", !.user = user, !.query = q, !.k = k,
                                    !.no = begun + 1, !.left = kind.left, !.compare = kind.compare,
                                    !.seen = seen]
  OBVIOUS
<1>7. /\ r \in PlayRequest /\ r.pc = "select" /\ r.user = user /\ r.left = kind.left /\ r.query = q
      /\ r.seen = seen
  <2>1. /\ begun + 1 \in Nat /\ user \in Users \cup {None} /\ "select" \in {"idle"} \cup Uploading \cup Querying
        /\ kind.left \in Seq(Play!Document) \cup Seq(Play!Strategies) /\ q \in Queries \cup {None} /\ k \in Nat
        /\ kind.compare \in BOOLEAN
    BY <1>2, <1>5, PlayAssumption DEF Querying
  <2>2. Play!NoRequest \in PlayRequest
    BY NoRequestIs
  <2> QED
    BY <1>4, <1>6, <2>1, <2>2 DEF PlayRequest
<1>8. RequestOK(r)
  BY <1>2, <1>4, <1>7 DEF RequestOK, Uploading
<1> QED
  BY <1>1, <1>3, <1>5, <1>6, <1>7, <1>8, Moves

LEMMA PolicyIs ==
    ASSUME NEW class, NEW confidence
    PROVE  /\ Play!Policy(class, confidence).policy \in Policies
           /\ Play!Policy(class, confidence).strategy \in Play!Strategies
BY DEF Play!Policy, Policies, Play!Strategies

LEMMA CandidatesAre ==
    ASSUME NEW k \in Nat, NEW policy
    PROVE  Play!CandidateTopK(k, policy) \in Nat
<1>1. /\ Play!Max({k * 3, k + 6}) \in Nat /\ Play!Max({k, 3}) \in Nat
      /\ Play!Max({k * 2, k + 3}) \in Nat
  <2>1. k * 3 \in Nat /\ k + 6 \in Nat /\ k * 2 \in Nat /\ k + 3 \in Nat
    OBVIOUS
  <2> QED
    BY <2>1, GreatestOfTwo
<1> QED
  BY <1>1 DEF Play!CandidateTopK

LEMMA SelectPolicyStep ==
    ASSUME PlayInv, NEW w \in Workers, Play!SelectPolicy(w)
    PROVE  PlayInv'
<1>1. PICK r : r = request[w]
  OBVIOUS
<1>2. r \in PlayRequest /\ RequestOK(r) /\ r.pc = "select"
  BY <1>1, RequestIs DEF Play!SelectPolicy
<1>3. PICK p : p = IF Play!ByPolicy(r)
                   THEN Play!Policy(Play!QueryClass(r.query),
                                    Play!Confidence(Play!Search(r.user, r.query, 5), r.query))
                   ELSE [policy |-> r.left[1], strategy |-> r.left[1]]
  OBVIOUS
<1>4. /\ r.user \in Users /\ r.query \in Queries /\ r.left \in Seq(Play!Strategies) \ {<<>>}
      /\ Covered(r.seen, Records(r.user))
  BY <1>2 DEF RequestOK, Querying
<1>5. p.policy \in Policies /\ p.strategy \in Play!Strategies
  <2>1. r.left[1] \in Play!Strategies
    BY <1>4
  <2>2. CASE Play!ByPolicy(r)
    BY <1>3, <2>2, PolicyIs
  <2>3. CASE ~Play!ByPolicy(r)
    BY <1>3, <2>1, <2>3 DEF Policies
  <2> QED
    BY <2>2, <2>3
<1>6. PICK s : s = [r EXCEPT !.pc = "search", !.policy = p.policy, !.strategy = p.strategy,
                             !.limit = Play!CandidateTopK(r.k, p.policy)]
  OBVIOUS
<1>7. Play!Goes(w, s) /\ UNCHANGED <<store, uploads, replied, begun>>
  BY <1>1, <1>3, <1>6, Zenon DEF Play!SelectPolicy
<1>8. /\ s \in PlayRequest /\ s.pc = "search" /\ s.user = r.user /\ s.query = r.query /\ s.left = r.left
      /\ s.seen = r.seen /\ s.strategy = p.strategy
  <2>1. /\ "search" \in {"idle"} \cup Uploading \cup Querying /\ p.policy \in Policies \cup {None}
        /\ p.strategy \in Play!Strategies \cup {None}
    BY <1>5 DEF Querying
  <2>2. Play!CandidateTopK(r.k, p.policy) \in Nat
    <3>1. r.k \in Nat
      BY <1>2 DEF PlayRequest
    <3> QED
      BY <3>1, CandidatesAre
  <2> QED
    BY <1>2, <1>6, <2>1, <2>2 DEF PlayRequest
<1>9. RequestOK(s)
  BY <1>4, <1>5, <1>8 DEF RequestOK, Uploading
<1>10. begun' \in Nat
  BY <1>7 DEF PlayInv
<1> QED
  BY <1>7, <1>8, <1>9, <1>10, Moves

\* A request that is done with its strategy.
LEMMA RetrievesStep ==
    ASSUME PlayInv, NEW w \in Workers, NEW r, r = request[w], r.pc \in {"search", "merge", "rerank", "correct"},
           NEW hits, Play!Retrieves(w, hits), UNCHANGED <<store, uploads, replied, begun>>,
           Once(hits, Records(r.user)), Len(hits) <= r.limit,
           \A u \in r.seen : \A token \in 1..u.tokens :
               \/ Len(hits) = r.limit
               \/ r.strategy = "bm25_top_k" /\ (Len(Play!Own(r.user)) > ListLimit \/ r.query.lexical[u.words] = 0)
               \/ \E i \in Play!Ids(hits) : HasWord(i, u, token)
    PROVE  PlayInv'
<1>1. r \in PlayRequest /\ RequestOK(r) /\ r.pc \in Querying
  BY RequestIs DEF Querying
<1>2. PICK s : s = [r EXCEPT !.pc = "answer", !.retrieved = hits]
  OBVIOUS
<1>3. Play!Goes(w, s)
  BY <1>2 DEF Play!Retrieves
<1>4. /\ s \in PlayRequest /\ s.pc = "answer" /\ s.user = r.user /\ s.query = r.query /\ s.left = r.left
      /\ s.seen = r.seen /\ s.strategy = r.strategy /\ s.limit = r.limit /\ s.retrieved = hits
  <2>1. "answer" \in {"idle"} \cup Uploading \cup Querying /\ hits \in Seq(PlayHit)
    BY DEF Querying, Once
  <2> QED
    BY <1>1, <1>2, <2>1 DEF PlayRequest
<1>5. Answerable(s)
  BY <1>4 DEF Answerable, NothingMissed
<1>6. RequestOK(s)
  BY <1>1, <1>4, <1>5 DEF RequestOK, Uploading
<1>7. begun' \in Nat
  BY DEF PlayInv
<1> QED
  BY <1>3, <1>4, <1>6, <1>7, Moves

LEMMA EnoughIsFound ==
    ASSUME PlayInv, NEW w \in Workers, NEW r, r = request[w], r.pc \in {"search", "merge", "rerank", "correct"},
           NEW hits, Play!Retrieves(w, hits), UNCHANGED <<store, uploads, replied, begun>>,
           Once(hits, Records(r.user)), Len(hits) <= r.limit, Enough(hits, r.limit, r.seen)
    PROVE  PlayInv'
<1>1. Len(hits) \in Nat /\ r.limit \in Nat
  <2>1. r \in PlayRequest
    BY RequestIs
  <2> QED
    BY <2>1 DEF PlayRequest, Once
<1>2. Len(hits) = r.limit \/ Covered(r.seen, Play!Ids(hits))
  BY <1>1 DEF Enough
<1>3. \A u \in r.seen : \A token \in 1..u.tokens :
          Len(hits) = r.limit \/ \E i \in Play!Ids(hits) : HasWord(i, u, token)
  BY <1>2 DEF Covered
<1> QED
  BY <1>3, RetrievesStep

LEMMA ContinuesStep ==
    ASSUME PlayInv, NEW w \in Workers, NEW r, r = request[w], r.pc \in {"search", "merge", "rerank", "correct"},
           NEW hits, NEW after \in {"merge", "rerank", "correct"}, Play!Continues(w, after, hits),
           UNCHANGED <<store, uploads, replied, begun>>,
           Once(hits, Records(r.user)), Enough(hits, r.limit, r.seen)
    PROVE  PlayInv'
<1>1. r \in PlayRequest /\ RequestOK(r) /\ r.pc \in Querying
  BY RequestIs DEF Querying
<1>2. PICK s : s = [r EXCEPT !.pc = after, !.dense = hits]
  OBVIOUS
<1>3. Play!Goes(w, s)
  BY <1>2 DEF Play!Continues
<1>4. /\ s \in PlayRequest /\ s.pc = after /\ s.user = r.user /\ s.query = r.query /\ s.left = r.left
      /\ s.seen = r.seen /\ s.strategy = r.strategy /\ s.limit = r.limit /\ s.dense = hits
  <2>1. after \in {"idle"} \cup Uploading \cup Querying /\ hits \in Seq(PlayHit)
    BY DEF Querying, Once
  <2> QED
    BY <1>1, <1>2, <2>1 DEF PlayRequest
<1>5. RequestOK(s)
  BY <1>1, <1>4 DEF RequestOK, Uploading
<1>6. begun' \in Nat
  BY DEF PlayInv
<1> QED
  BY <1>3, <1>4, <1>5, <1>6, Moves

LEMMA KeepsEnough ==
    ASSUME NEW records, NEW hits, NEW some, Once(hits, records), Once(some, records),
           NEW limit \in Nat, NEW more \in Nat, limit <= more, NEW seen,
           Enough(hits, limit, seen), Keeps(some, hits, more)
    PROVE  Enough(some, limit, seen)
<1>1. Len(hits) \in Nat /\ Len(some) \in Nat
  BY DEF Once
<1>2. CASE Len(some) = more
  BY <1>2 DEF Enough
<1>3. CASE Len(some) # more
  <2>1. Len(hits) <= Len(some) /\ Play!Ids(hits) \subseteq Play!Ids(some)
    BY <1>3 DEF Keeps
  <2>2. Covered(seen, Play!Ids(hits)) => Covered(seen, Play!Ids(some))
    BY <2>1 DEF Covered
  <2> QED
    BY <1>1, <2>1, <2>2 DEF Enough
<1> QED
  BY <1>2, <1>3

LEMMA QueryIs ==
    ASSUME NEW q \in Queries
    PROVE  /\ q.dense \in [Words -> Int] /\ q.bonus \in [Words -> Int] /\ q.lexical \in [Words -> Nat]
           /\ ListLimit \in Nat
BY PlayAssumption

LEMMA SearchIsEnough ==
    ASSUME StoreOK, NEW user, NEW q \in Queries, NEW limit \in Nat, NEW more \in Nat, limit <= more,
           NEW seen, Covered(seen, Records(user))
    PROVE  /\ Once(Play!Search(user, q, more), Records(user))
           /\ Len(Play!Search(user, q, more)) <= more
           /\ Enough(Play!Search(user, q, more), limit, seen)
<1>1. PICK hits : hits = Play!Search(user, q, more)
  OBVIOUS
<1>2. /\ Once(hits, Records(user)) /\ Len(hits) <= more
      /\ Len(hits) = more \/ Records(user) \subseteq Play!Ids(hits)
  BY <1>1, SearchIs, QueryIs
<1>3. Enough(hits, limit, seen)
  BY <1>2 DEF Enough, Covered
<1> QED
  BY <1>1, <1>2, <1>3

LEMMA WideIs ==
    ASSUME NEW a \in Nat, NEW b \in Nat
    PROVE  /\ Play!Max({4 * a, b}) \in Nat /\ a <= Play!Max({4 * a, b})
           /\ Play!Max({5 * a, b}) \in Nat /\ a <= Play!Max({5 * a, b})
           /\ Play!Max({3 * a, b}) \in Nat /\ a <= Play!Max({3 * a, b})
<1>1. 4 * a \in Nat /\ 5 * a \in Nat /\ 3 * a \in Nat
  OBVIOUS
<1> QED
  BY <1>1, GreatestOfTwo

LEMMA RerankLimitIs ==
    ASSUME NEW r, r.limit \in Nat
    PROVE  Play!RerankLimit(r) \in Nat /\ r.limit <= Play!RerankLimit(r)
BY DEF Play!RerankLimit

\* What is known of a request that searches.
LEMMA SearcherIs ==
    ASSUME PlayInv, NEW w \in Workers, NEW r, r = request[w], r.pc \in {"search", "merge", "rerank", "correct"}
    PROVE  /\ StoreOK /\ r \in PlayRequest /\ r.user \in Users /\ r.query \in Queries /\ r.limit \in Nat
           /\ Covered(r.seen, Records(r.user))
           /\ r.pc = "search" => r.strategy \in Play!Strategies
           /\ r.pc # "search" => Once(r.dense, Records(r.user)) /\ Enough(r.dense, r.limit, r.seen)
<1>1. r \in PlayRequest /\ RequestOK(r) /\ r.pc \in Querying
  BY RequestIs DEF Querying
<1>2. r.limit \in Nat
  BY <1>1 DEF PlayRequest
<1> QED
  BY <1>1, <1>2 DEF RequestOK, PlayInv

LEMMA SearchVectorsStep ==
    ASSUME PlayInv, NEW w \in Workers, Play!SearchVectors(w)
    PROVE  PlayInv'
<1>1. PICK r : r = request[w]
  OBVIOUS
<1>2. r.pc = "search" /\ UNCHANGED <<store, uploads, replied, begun>>
  BY <1>1 DEF Play!SearchVectors
<1>3. /\ StoreOK /\ r \in PlayRequest /\ r.user \in Users /\ r.query \in Queries /\ r.limit \in Nat
      /\ Covered(r.seen, Records(r.user)) /\ r.strategy \in Play!Strategies
  BY <1>1, <1>2, SearcherIs
<1>4. \A more \in Nat : r.limit <= more =>
          /\ Once(Play!Search(r.user, r.query, more), Records(r.user))
          /\ Len(Play!Search(r.user, r.query, more)) <= more
          /\ Enough(Play!Search(r.user, r.query, more), r.limit, r.seen)
  BY <1>3, SearchIsEnough
<1>5. PICK first : first = Play!Search(r.user, r.query, r.limit)
  OBVIOUS
<1>6. ASSUME Play!Retrieves(w, first) PROVE PlayInv'
  BY <1>1, <1>2, <1>3, <1>4, <1>5, <1>6, EnoughIsFound
<1>7. ASSUME NEW more \in Nat, r.limit <= more, NEW after \in {"merge", "rerank", "correct"},
             Play!Continues(w, after, Play!Search(r.user, r.query, more))
      PROVE  PlayInv'
  BY <1>1, <1>2, <1>4, <1>7, ContinuesStep
<1>8. ASSUME r.strategy = "bm25_top_k", Play!Retrieves(w, Play!Bm25(r.user, r.query, r.limit)) PROVE PlayInv'
  <2>1. PICK hits : hits = Play!Bm25(r.user, r.query, r.limit)
    OBVIOUS
  <2>2. /\ Once(hits, Records(r.user)) /\ Len(hits) <= r.limit
        /\ \/ Len(hits) = r.limit
           \/ Len(Play!Own(r.user)) > ListLimit
           \/ \A i \in Records(r.user) : r.query.lexical[store[i].words] # 0 => i \in Play!Ids(hits)
    BY <1>3, <2>1, Bm25Is, QueryIs
  <2>3. ASSUME NEW u \in r.seen, NEW token \in 1..u.tokens
        PROVE  \/ Len(hits) = r.limit
               \/ r.strategy = "bm25_top_k" /\ (Len(Play!Own(r.user)) > ListLimit \/ r.query.lexical[u.words] = 0)
               \/ \E i \in Play!Ids(hits) : HasWord(i, u, token)
    <3>1. PICK i \in Records(r.user) : HasWord(i, u, token)
      BY <1>3 DEF Covered
    <3>2. store[i].words = u.words
      BY <3>1 DEF HasWord
    <3> QED
      BY <1>8, <2>2, <3>1, <3>2
  <2> QED
    BY <1>1, <1>2, <1>8, <2>1, <2>2, <2>3, RetrievesStep
<1>9. ASSUME Play!Goes(w, [r EXCEPT !.strategy = "hybrid"]) PROVE PlayInv'
  <2>1. PICK s : s = [r EXCEPT !.strategy = "hybrid"]
    OBVIOUS
  <2>2. "hybrid" \in Play!Strategies
    BY DEF Play!Strategies
  <2>3. /\ s \in PlayRequest /\ s.pc = "search" /\ s.user = r.user /\ s.query = r.query /\ s.left = r.left
        /\ s.seen = r.seen /\ s.strategy = "hybrid"
    BY <1>2, <1>3, <2>1, <2>2 DEF PlayRequest
  <2>4. RequestOK(r)
    BY <1>1, RequestIs
  <2>5. RequestOK(s)
    BY <1>2, <2>2, <2>3, <2>4 DEF RequestOK, Uploading, Querying
  <2>6. begun' \in Nat
    BY <1>2 DEF PlayInv
  <2> QED
    BY <1>2, <1>9, <2>1, <2>3, <2>5, <2>6, Moves
<1>10. /\ Play!Max({4 * r.limit, 20}) \in Nat /\ r.limit <= Play!Max({4 * r.limit, 20})
       /\ Play!Max({5 * r.limit, 30}) \in Nat /\ r.limit <= Play!Max({5 * r.limit, 30})
  BY <1>3, WideIs
<1>11. Play!Max({5 * Play!RerankLimit(r), 30}) \in Nat /\ r.limit <= Play!Max({5 * Play!RerankLimit(r), 30})
  <2>1. PICK a : a = Play!RerankLimit(r)
    OBVIOUS
  <2>2. a \in Nat /\ r.limit <= a
    BY <1>3, <2>1, RerankLimitIs
  <2>3. Play!Max({5 * a, 30}) \in Nat /\ a <= Play!Max({5 * a, 30})
    BY <2>2, WideIs
  <2> QED
    BY <1>3, <2>1, <2>2, <2>3
<1>12. CASE r.strategy = "dense_top_k"
  BY <1>1, <1>5, <1>6, <1>12 DEF Play!SearchVectors
<1>13. CASE r.strategy = "bm25_top_k"
  BY <1>1, <1>8, <1>13 DEF Play!SearchVectors
<1>14. CASE r.strategy = "hybrid"
  BY <1>1, <1>7, <1>10, <1>14 DEF Play!SearchVectors
<1>15. CASE r.strategy \in {"hybrid_rerank", "corrective_rag"}
  BY <1>1, <1>7, <1>11, <1>15 DEF Play!SearchVectors
<1>16. CASE r.strategy = "contexttrace_adaptive"
  BY <1>1, <1>5, <1>6, <1>7, <1>9, <1>10, <1>16 DEF Play!SearchVectors
<1> QED
  BY <1>3, <1>12, <1>13, <1>14, <1>15, <1>16 DEF Play!Strategies

LEMMA MergeListsStep ==
    ASSUME PlayInv, NEW w \in Workers, Play!MergeLists(w)
    PROVE  PlayInv'
<1>1. PICK r, lexical, hits : /\ r = request[w]
                              /\ lexical = Play!Bm25(r.user, r.query, Play!Max({4 * r.limit, 20}))
                              /\ hits = Play!Merged(r.dense, lexical, r.limit, 50)
  OBVIOUS
<1>2. r.pc = "merge" /\ UNCHANGED <<store, uploads, replied, begun>> /\ Play!Retrieves(w, hits)
  BY <1>1 DEF Play!MergeLists
<1>3. /\ StoreOK /\ r \in PlayRequest /\ r.query \in Queries /\ r.limit \in Nat
      /\ Once(r.dense, Records(r.user)) /\ Enough(r.dense, r.limit, r.seen)
  BY <1>1, <1>2, SearcherIs
<1>4. Once(lexical, Records(r.user))
  <2>1. PICK wide : wide = Play!Max({4 * r.limit, 20})
    OBVIOUS
  <2>2. wide \in Nat
    BY <1>3, <2>1, WideIs
  <2>3. r.query.lexical \in [Words -> Nat] /\ ListLimit \in Nat
    BY <1>3, QueryIs
  <2> QED
    BY <1>1, <1>3, <2>1, <2>2, <2>3, Bm25Is
<1>5. Once(hits, Records(r.user)) /\ Keeps(hits, r.dense, r.limit)
  <2>1. PICK weight : weight = 50 /\ weight \in Int /\ hits = Play!Merged(r.dense, lexical, r.limit, weight)
    BY <1>1
  <2> QED
    BY <1>3, <1>4, <2>1, MergedIs
<1>6. Enough(hits, r.limit, r.seen) /\ Len(hits) <= r.limit
  BY <1>3, <1>5, KeepsEnough DEF Keeps
<1> QED
  BY <1>1, <1>2, <1>5, <1>6, EnoughIsFound

LEMMA CorrectStep ==
    ASSUME PlayInv, NEW w \in Workers, Play!Correct(w)
    PROVE  PlayInv'
<1>1. PICK r, lexical, hits : /\ r = request[w]
                              /\ lexical = Play!Bm25(r.user, r.query, Play!Max({3 * r.limit, 10}))
                              /\ hits = Play!Merged(r.dense, lexical, r.limit, 35)
  OBVIOUS
<1>2. r.pc = "correct" /\ UNCHANGED <<store, uploads, replied, begun>> /\ Play!Retrieves(w, hits)
  BY <1>1 DEF Play!Correct
<1>3. /\ StoreOK /\ r \in PlayRequest /\ r.query \in Queries /\ r.limit \in Nat
      /\ Once(r.dense, Records(r.user)) /\ Enough(r.dense, r.limit, r.seen)
  BY <1>1, <1>2, SearcherIs
<1>4. Once(lexical, Records(r.user))
  <2>1. PICK wide : wide = Play!Max({3 * r.limit, 10})
    OBVIOUS
  <2>2. wide \in Nat
    BY <1>3, <2>1, WideIs
  <2>3. r.query.lexical \in [Words -> Nat] /\ ListLimit \in Nat
    BY <1>3, QueryIs
  <2> QED
    BY <1>1, <1>3, <2>1, <2>2, <2>3, Bm25Is
<1>5. Once(hits, Records(r.user)) /\ Keeps(hits, r.dense, r.limit)
  <2>1. PICK weight : weight = 35 /\ weight \in Int /\ hits = Play!Merged(r.dense, lexical, r.limit, weight)
    BY <1>1
  <2> QED
    BY <1>3, <1>4, <2>1, MergedIs
<1>6. Enough(hits, r.limit, r.seen) /\ Len(hits) <= r.limit
  BY <1>3, <1>5, KeepsEnough DEF Keeps
<1> QED
  BY <1>1, <1>2, <1>5, <1>6, EnoughIsFound

LEMMA RerankStep ==
    ASSUME PlayInv, NEW w \in Workers, Play!Rerank(w)
    PROVE  PlayInv'
<1>1. PICK r : r = request[w]
  OBVIOUS
<1>2. PICK limit, wide : limit = Play!RerankLimit(r) /\ wide = Play!Max({5 * limit, 30})
  OBVIOUS
<1>3. PICK lexical, merged, hits : /\ lexical = Play!Bm25(r.user, r.query, wide)
                                   /\ merged = Play!Merged(r.dense, lexical, wide, 45)
                                   /\ hits = Play!Reranked(merged, r.query, limit)
  OBVIOUS
<1>4. /\ r.pc = "rerank" /\ UNCHANGED <<store, uploads, replied, begun>>
      /\ \/ r.strategy # "corrective_rag" /\ Play!Retrieves(w, hits)
         \/ Play!Retrieves(w, SubSeq(hits, 1, Play!Min({Len(hits), r.limit})))
         \/ Play!Continues(w, "correct", hits)
  BY <1>1, <1>2, <1>3 DEF Play!Rerank
<1>5. /\ StoreOK /\ r \in PlayRequest /\ r.query \in Queries /\ r.limit \in Nat
      /\ Once(r.dense, Records(r.user)) /\ Enough(r.dense, r.limit, r.seen)
  BY <1>1, <1>4, SearcherIs
<1>6. limit \in Nat /\ r.limit <= limit /\ wide \in Nat /\ limit <= wide /\ r.limit <= wide
  <2>1. limit \in Nat /\ r.limit <= limit
    BY <1>2, <1>5, RerankLimitIs
  <2>2. wide \in Nat /\ limit <= wide
    BY <1>2, <2>1, WideIs
  <2> QED
    BY <1>5, <2>1, <2>2
<1>7. Once(lexical, Records(r.user))
  <2>1. /\ r.query.lexical \in [Words -> Nat] /\ ListLimit \in Nat /\ wide \in Nat
    BY <1>5, <1>6, QueryIs
  <2> QED
    BY <1>3, <1>5, <2>1, Bm25Is
<1>8. Once(merged, Records(r.user)) /\ Keeps(merged, r.dense, wide)
  BY <1>3, <1>5, <1>6, <1>7, MergedIs
<1>9. Enough(merged, r.limit, r.seen)
  BY <1>5, <1>6, <1>8, KeepsEnough
<1>10. Once(hits, Records(r.user)) /\ Keeps(hits, merged, limit)
  BY <1>3, <1>5, <1>6, <1>8, RerankedIs, QueryIs
<1>11. Enough(hits, r.limit, r.seen)
  BY <1>5, <1>6, <1>8, <1>9, <1>10, KeepsEnough
<1>12. CASE r.strategy # "corrective_rag" /\ Play!Retrieves(w, hits)
  <2>1. Len(hits) <= r.limit
    BY <1>2, <1>10, <1>12 DEF Keeps, Play!RerankLimit
  <2> QED
    BY <1>1, <1>4, <1>10, <1>11, <1>12, <2>1, EnoughIsFound
<1>13. CASE Play!Retrieves(w, SubSeq(hits, 1, Play!Min({Len(hits), r.limit})))
  <2>1. PICK n, some : n = Play!Min({Len(hits), r.limit}) /\ some = SubSeq(hits, 1, n)
    OBVIOUS
  <2>2. Len(hits) \in Nat
    BY <1>10 DEF Once
  <2>3. n \in 0..Len(hits) /\ n <= r.limit /\ (n = r.limit \/ n = Len(hits))
    BY <1>5, <2>1, <2>2, LeastOfTwo
  <2>4. Once(some, Records(r.user)) /\ Len(some) = n /\ (n = Len(hits) => some = hits)
    BY <1>10, <2>1, <2>3, FirstOnce
  <2>5. Enough(some, r.limit, r.seen) /\ Len(some) <= r.limit
    BY <1>5, <1>11, <2>3, <2>4 DEF Enough
  <2> QED
    BY <1>1, <1>4, <1>13, <2>1, <2>4, <2>5, EnoughIsFound
<1>14. CASE Play!Continues(w, "correct", hits)
  BY <1>1, <1>4, <1>10, <1>11, <1>14, ContinuesStep
<1> QED
  BY <1>4, <1>12, <1>13, <1>14

LEMMA SelectedIs ==
    ASSUME NEW records, NEW hits, Once(hits, records), NEW k \in Nat, NEW policy
    PROVE  /\ Play!Ids(Play!Selected(hits, k, policy)) \subseteq Play!Ids(hits)
           /\ policy = "abstain_low_confidence" => Play!Ids(Play!Selected(hits, k, policy)) = {}
<1>1. CASE policy = "abstain_low_confidence"
  BY <1>1 DEF Play!Selected, Play!Ids
<1>2. CASE policy # "abstain_low_confidence"
  <2>1. PICK most, n : /\ most = IF policy = "compressed_context" THEN 2 * k ELSE k
                       /\ n = Play!Min({Len(hits), most})
    OBVIOUS
  <2>2. most \in Nat /\ Len(hits) \in Nat
    BY <2>1 DEF Once
  <2>3. n \in 0..Len(hits)
    BY <2>1, <2>2, LeastOfTwo
  <2>4. Play!Selected(hits, k, policy) = SubSeq(hits, 1, n)
    BY <1>2, <2>1 DEF Play!Selected
  <2> QED
    BY <1>2, <2>3, <2>4, FirstOnce
<1> QED
  BY <1>1, <1>2

LEMMA AnsweredStep ==
    ASSUME PlayInv, NEW w \in Workers, Play!Answered(w)
    PROVE  PlayInv'
<1>1. PICK r : r = request[w]
  OBVIOUS
<1>2. r \in PlayRequest /\ RequestOK(r) /\ r.pc = "answer"
  BY <1>1, RequestIs DEF Play!Answered
<1>3. PICK context, cited : /\ context = Play!Ids(Play!Selected(r.retrieved, r.k, r.policy))
                            /\ cited \in SUBSET Play!Ids(r.retrieved)
                            /\ replied' = replied \cup
                                 {[no |-> r.no, user |-> r.user, k |-> r.k, asked |-> r.left[1],
                                   policy |-> r.policy, strategy |-> r.strategy, limit |-> r.limit,
                                   query |-> r.query, seen |-> r.seen, retrieved |-> r.retrieved,
                                   context |-> context, citations |-> cited \cap context,
                                   evaluated |-> FALSE]}
                            /\ Play!Goes(w, [r EXCEPT !.pc = "judge"])
  BY <1>1 DEF Play!Answered
<1>4. PICK t : t = [no |-> r.no, user |-> r.user, k |-> r.k, asked |-> r.left[1],
                    policy |-> r.policy, strategy |-> r.strategy, limit |-> r.limit,
                    query |-> r.query, seen |-> r.seen, retrieved |-> r.retrieved,
                    context |-> context, citations |-> cited \cap context,
                    evaluated |-> FALSE]
  OBVIOUS
<1>5. replied' = replied \cup {t} /\ UNCHANGED <<store, uploads, begun>>
  BY <1>3, <1>4 DEF Play!Answered
<1>6. /\ Answerable(r) /\ r.user \in Users /\ r.query \in Queries /\ r.left[1] \in Play!Strategies
      /\ r.left \in Seq(Play!Strategies) \ {<<>>} /\ Covered(r.seen, Records(r.user))
  BY <1>2 DEF RequestOK, Querying
<1>7. /\ context \subseteq Play!Ids(r.retrieved)
      /\ r.policy = "abstain_low_confidence" => context = {}
  <2>1. Once(r.retrieved, Records(r.user)) /\ r.k \in Nat
    BY <1>2, <1>6 DEF Answerable, PlayRequest
  <2> QED
    BY <1>3, <2>1, SelectedIs
<1>8. t \in PlayTrace
  <2>1. Play!Ids(r.retrieved) \subseteq Nat
    <3>1. r.retrieved \in Seq(PlayHit)
      BY <1>2 DEF PlayRequest
    <3>2. \A n \in DOMAIN r.retrieved : r.retrieved[n] \in PlayHit
      BY <3>1
    <3> QED
      BY <3>2 DEF Play!Ids, PlayHit
  <2>2. context \in SUBSET Nat /\ cited \cap context \in SUBSET Nat
    BY <1>7, <2>1
  <2> QED
    BY <1>2, <1>4, <1>6, <2>2 DEF PlayTrace, PlayRequest
<1>9. TraceOK(t)
  <2>1. /\ t.retrieved = r.retrieved /\ t.user = r.user /\ t.limit = r.limit /\ t.seen = r.seen
        /\ t.strategy = r.strategy /\ t.query = r.query /\ t.policy = r.policy
        /\ t.context = context /\ t.citations = cited \cap context
    BY <1>4
  <2>2. Answerable(t)
    BY <1>6, <2>1 DEF Answerable, NothingMissed
  <2> QED
    BY <1>7, <2>1, <2>2 DEF TraceOK
<1>10. PICK s : s = [r EXCEPT !.pc = "judge"]
  OBVIOUS
<1>11. s \in PlayRequest /\ RequestOK(s)
  <2>1. /\ s \in PlayRequest /\ s.pc = "judge" /\ s.user = r.user /\ s.query = r.query /\ s.left = r.left
        /\ s.seen = r.seen
    BY <1>2, <1>10 DEF PlayRequest, Querying
  <2> QED
    BY <1>6, <2>1 DEF RequestOK, Uploading
<1>12. Stays /\ StoreOK /\ StoreOK'
  BY <1>5, SameStore DEF PlayInv
<1>13. /\ request' \in [Workers -> PlayRequest]
       /\ \A v \in Workers : \A z \in {request'[v]} : RequestOK(z)'
  BY <1>3, <1>10, <1>11, <1>12, RequestStays, RequestGoes
<1>14. \A u \in uploads' : Covered({u}, Records(u.owner))'
  BY <1>5 DEF PlayInv, Covered, Records, HasWord
<1>15. replied' \in SUBSET PlayTrace /\ \A z \in replied' : TraceOK(z)'
  BY <1>5, <1>8, <1>9, <1>12, TraceStays DEF PlayInv
<1>16. uploads' \in SUBSET PlayUpload /\ begun' \in Nat
  BY <1>5 DEF PlayInv
<1> QED
  BY <1>12, <1>13, <1>14, <1>15, <1>16 DEF PlayInv

LEMMA EvaluatedStep ==
    ASSUME PlayInv, NEW w \in Workers, Play!Evaluated(w)
    PROVE  PlayInv'
<1>1. PICK r : r = request[w]
  OBVIOUS
<1>2. r \in PlayRequest /\ RequestOK(r) /\ r.pc = "judge"
  BY <1>1, RequestIs DEF Play!Evaluated
<1>3. /\ replied' = {IF t.no = r.no /\ ~t.evaluated THEN [t EXCEPT !.evaluated = TRUE] ELSE t : t \in replied}
      /\ IF Len(r.left) = 1 THEN Play!Ends(w) ELSE Play!Goes(w, [r EXCEPT !.pc = "select", !.left = Tail(r.left)])
      /\ UNCHANGED <<store, uploads, begun>>
  BY <1>1 DEF Play!Evaluated
<1>4. /\ r.user \in Users /\ r.query \in Queries /\ Covered(r.seen, Records(r.user))
      /\ r.left \in Seq(Play!Strategies) /\ r.left # <<>>
  BY <1>2 DEF RequestOK, Querying
<1>5. PICK s : s = IF Len(r.left) = 1 THEN Play!NoRequest ELSE [r EXCEPT !.pc = "select", !.left = Tail(r.left)]
  OBVIOUS
<1>6. Play!Goes(w, s)
  BY <1>3, <1>5 DEF Play!Ends
<1>7. s \in PlayRequest /\ RequestOK(s)
  <2>1. CASE Len(r.left) = 1
    BY <1>5, <2>1, NoRequestIs
  <2>2. CASE Len(r.left) # 1
    <3>1. Tail(r.left) \in Seq(Play!Strategies) /\ Tail(r.left) # <<>>
      BY <1>4, <2>2, RestIs
    <3>2. /\ s \in PlayRequest /\ s.pc = "select" /\ s.user = r.user /\ s.left = Tail(r.left)
          /\ s.query = r.query /\ s.seen = r.seen
      <4>1. /\ "select" \in {"idle"} \cup Uploading \cup Querying
            /\ Tail(r.left) \in Seq(Play!Document) \cup Seq(Play!Strategies)
        BY <3>1 DEF Querying
      <4>2. s = [r EXCEPT !.pc = "select", !.left = Tail(r.left)]
        BY <1>5, <2>2
      <4> QED
        BY <1>2, <4>1, <4>2 DEF PlayRequest
    <3> QED
      BY <1>4, <3>1, <3>2 DEF RequestOK, Uploading
  <2> QED
    BY <2>1, <2>2
<1>8. Stays /\ StoreOK /\ StoreOK'
  BY <1>3, SameStore DEF PlayInv
<1>9. /\ request' \in [Workers -> PlayRequest]
      /\ \A v \in Workers : \A z \in {request'[v]} : RequestOK(z)'
  BY <1>6, <1>7, <1>8, RequestStays, RequestGoes
<1>10. \A u \in uploads' : Covered({u}, Records(u.owner))'
  BY <1>3 DEF PlayInv, Covered, Records, HasWord
<1>11. ASSUME NEW z \in replied' PROVE z \in PlayTrace /\ TraceOK(z)'
  <2>1. PICK t \in replied : z = t \/ z = [t EXCEPT !.evaluated = TRUE]
    BY <1>3
  <2>2. t \in PlayTrace /\ TraceOK(t)
    BY DEF PlayInv
  <2>3. /\ z \in PlayTrace /\ z.retrieved = t.retrieved /\ z.user = t.user /\ z.limit = t.limit
        /\ z.seen = t.seen /\ z.strategy = t.strategy /\ z.query = t.query /\ z.policy = t.policy
        /\ z.context = t.context /\ z.citations = t.citations
    BY <2>1, <2>2 DEF PlayTrace
  <2>4. TraceOK(z)
    BY <2>2, <2>3 DEF TraceOK, Answerable, NothingMissed
  <2> QED
    BY <1>8, <2>3, <2>4, TraceStays
<1>12. replied' \in SUBSET PlayTrace /\ \A z \in replied' : TraceOK(z)'
  BY <1>11
<1>13. uploads' \in SUBSET PlayUpload /\ begun' \in Nat
  BY <1>3 DEF PlayInv
<1> QED
  BY <1>8, <1>9, <1>10, <1>12, <1>13 DEF PlayInv

LEMMA ProviderFailsStep ==
    ASSUME PlayInv, NEW w \in Workers, Play!ProviderFails(w)
    PROVE  PlayInv'
BY EndsStep DEF Play!ProviderFails

LEMMA PlayStutters ==
    ASSUME PlayInv, UNCHANGED Play!vars
    PROVE  PlayInv'
<1>1. UNCHANGED <<store, uploads, request, replied, begun>>
  BY DEF Play!vars
<1>2. Stays /\ StoreOK /\ StoreOK'
  BY <1>1, SameStore DEF PlayInv
<1>3. \A w \in Workers : \A r \in {request'[w]} : RequestOK(r)'
  BY <1>1, <1>2, RequestStays DEF PlayInv
<1>4. \A u \in uploads' : Covered({u}, Records(u.owner))'
  BY <1>1 DEF PlayInv, Covered, Records, HasWord
<1>5. \A t \in replied' : TraceOK(t)'
  BY <1>1, <1>2, TraceStays DEF PlayInv
<1> QED
  BY <1>1, <1>2, <1>3, <1>4, <1>5 DEF PlayInv

LEMMA PlayKeepsInv ==
    PlayInv /\ [Play!Next]_Play!vars => PlayInv'
<1> SUFFICES ASSUME PlayInv, [Play!Next]_Play!vars PROVE PlayInv'
  OBVIOUS
<1>1. ASSUME NEW w \in Workers,
             \/ Play!BeginUpload(w) \/ Play!ChunkDocument(w) \/ Play!StoreChunks(w)
             \/ Play!BeginQuery(w) \/ Play!SelectPolicy(w) \/ Play!SearchVectors(w) \/ Play!MergeLists(w)
             \/ Play!Rerank(w) \/ Play!Correct(w) \/ Play!Answered(w) \/ Play!Evaluated(w)
             \/ Play!ProviderFails(w)
      PROVE  PlayInv'
  BY <1>1, BeginUploadStep, ChunkDocumentStep, StoreChunksStep, BeginQueryStep, SelectPolicyStep,
     SearchVectorsStep, MergeListsStep, RerankStep, CorrectStep, AnsweredStep, EvaluatedStep,
     ProviderFailsStep
<1>2. CASE UNCHANGED Play!vars
  BY <1>2, PlayStutters
<1> QED
  BY <1>1, <1>2 DEF Play!Next

LEMMA AnswersAreOwn ==
    PlayInv => AnswerRestsOnOwnContext
<1> SUFFICES ASSUME PlayInv, NEW t \in replied
             PROVE  /\ \A i \in Play!Ids(t.retrieved) : store[i].owner = t.user
                    /\ \A i, j \in DOMAIN t.retrieved : t.retrieved[i].id = t.retrieved[j].id => i = j
                    /\ Len(t.retrieved) <= t.limit
                    /\ t.citations \subseteq t.context /\ t.context \subseteq Play!Ids(t.retrieved)
                    /\ t.policy = "abstain_low_confidence" => t.context = {}
  BY DEF AnswerRestsOnOwnContext, Play!AnswerRestsOnOwnContext
<1>1. TraceOK(t) /\ Once(t.retrieved, Records(t.user)) /\ Len(t.retrieved) <= t.limit
  BY DEF PlayInv, TraceOK, Answerable
<1>2. Play!Ids(t.retrieved) \subseteq Records(t.user)
  BY <1>1, IdsAreRecords
<1> QED
  BY <1>1, <1>2 DEF TraceOK, Records, Once

LEMMA WordsAreFound ==
    PlayInv => NothingReportedIsMissed
<1> SUFFICES ASSUME PlayInv, NEW t \in replied, NEW u \in t.seen, NEW token \in 1..u.tokens
             PROVE  \/ Len(t.retrieved) = t.limit
                    \/ /\ t.strategy = "bm25_top_k"
                       /\ \/ Len(Play!Own(t.user)) > ListLimit
                          \/ t.query.lexical[u.words] = 0
                    \/ \E i \in Play!Ids(t.retrieved) :
                          store[i].upload = u.upload /\ store[i].from < token /\ token <= store[i].to
  BY DEF NothingReportedIsMissed, Play!NothingReportedIsMissed
<1>1. NothingMissed(t)
  BY DEF PlayInv, TraceOK, Answerable
<1> QED
  BY <1>1 DEF NothingMissed, HasWord

\* A user of the playground is answered with the user's own records, each once
\* and no more than were asked for, and cites the context; for any users,
\* documents, scores and settings of the chunker.
THEOREM AnswersRestOnOwnContext ==
    Play!Spec => []AnswerRestsOnOwnContext
<1>1. PlayInv => AnswerRestsOnOwnContext
  BY AnswersAreOwn
<1> QED
  BY <1>1, PlayInit, PlayKeepsInv, PTL DEF Play!Spec

\* A query of the playground that has room left has found every word its user
\* had uploaded before, by every strategy, however uploads and queries interleave.
THEOREM NoWordIsMissed ==
    Play!Spec => []NothingReportedIsMissed
<1>1. PlayInv => NothingReportedIsMissed
  BY WordsAreFound
<1> QED
  BY <1>1, PlayInit, PlayKeepsInv, PTL DEF Play!Spec
=============================================================================
