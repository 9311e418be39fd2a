-------------------------------- MODULE Suite --------------------------------
(***************************************************************************)
(* The regression suites of verify/suite and the commands that keep them   *)
(* (contexttrace suite create, add, remove, prune, run).  A suite is a     *)
(* file; a command reads it, works on what it read and writes it back.     *)
(* Users run commands at the same time, and a run replays the cases one by *)
(* one against an endpoint that answers what it likes or fails.            *)
(*                                                                         *)
(* A trace has a name (its run id, or its file's) and, for every mode, the *)
(* result of its verification.  Names and ids are sequences: the id made   *)
(* from name n and suffix k is Append(n, k).  A world is where it happens: *)
(* the first suite, what may be given to create and add, the answers of    *)
(* the endpoint, the options of run, and how many commands are run.        *)
(***************************************************************************)
EXTENDS Comparison

CONSTANTS Users, Worlds

VARIABLES
    world,
    file,      \* the suite file: its mode and cases, or None
    results,   \* the result file of the last run, or None
    command,   \* command[u]: what user u's command has read and done, or None
    begun      \* how many commands were begun

vars == <<world, file, results, command, begun>>

Init ==
    /\ world \in Worlds
    /\ file = world.file
    /\ results = None
    /\ command = [u \in Users |-> None]
    /\ begun = 0

-----------------------------------------------------------------------------
IdsOf(cases) == {cases[k].id : k \in DOMAIN cases}

\* _unique_case_id: the name, or the name with the first free suffix.
UniqueId(name, used) ==
    IF name \notin used THEN name
    ELSE LET Free == {k \in 2..(Cardinality(used) + 2) : Append(name, k) \notin used} IN
         Append(name, CHOOSE k \in Free : \A j \in Free : k <= j)

\* Mutation: the ids given in this command are not remembered.
UniqueIdsForgetting(names, used) == [k \in DOMAIN names |-> UniqueId(names[k], used)]

\* Ids for one name after the other, none of them used.
UniqueIds(names, used) ==
    LET Ids[k \in 0..Len(names)] ==
          IF k = 0 THEN <<>>
          ELSE Append(Ids[k - 1],
                      UniqueId(names[k], used \cup {Ids[k - 1][j] : j \in 1..(k - 1)})) IN
    Ids[Len(names)]

\* create_suite_from_trace_files: each case keeps its trace, and its
\* verification in the mode of the suite.
Created(traces, mode) ==
    LET ids == UniqueIds([k \in DOMAIN traces |-> traces[k].name], {}) IN
    [mode |-> mode,
     cases |-> [k \in DOMAIN traces |-> [id |-> ids[k], trace |-> traces[k], mode |-> mode]]]

\* Mutation: a replaced case takes the cases of other suffixes with it.
AddedReplacingAll(suite, traces, mode, replace) ==
    LET created == Created(traces, mode).cases
        Replaced(case) == replace /\ \E k \in DOMAIN created : created[k].trace.name[1] = case.id[1]
        Kept(case) == ~Replaced(case)
        old == SelectSeq(suite.cases, Kept)
        ids == IF replace THEN [k \in DOMAIN created |-> created[k].id]
               ELSE UniqueIds([k \in DOMAIN created |-> created[k].id], IdsOf(old)) IN
    [mode |-> mode, cases |-> old \o [k \in DOMAIN created |-> [created[k] EXCEPT !.id = ids[k]]]]

\* add_trace_files_to_suite
Added(suite, traces, mode, replace) ==
    LET created == Created(traces, mode).cases
        Kept(case) == ~replace \/ case.id \notin IdsOf(created)
        old == SelectSeq(suite.cases, Kept)
        ids == IF replace THEN [k \in DOMAIN created |-> created[k].id]
               ELSE UniqueIds([k \in DOMAIN created |-> created[k].id], IdsOf(old)) IN
    [mode |-> mode, cases |-> old \o [k \in DOMAIN created |-> [created[k] EXCEPT !.id = ids[k]]]]

\* remove_suite_cases and prune_suite_cases refuse to leave nothing.
Without(suite, ids) ==
    LET Kept(case) == case.id \notin ids IN
    [suite EXCEPT !.cases = SelectSeq(@, Kept)]

\* The ids a result file has with one of the statuses; of equal ids the last counts.
WithStatus(cases, statuses) ==
    {id \in IdsOf(cases) :
        \E k \in DOMAIN cases : /\ cases[k].id = id /\ cases[k].status \in statuses
                                /\ \A j \in DOMAIN cases : cases[j].id = id => j <= k}

-----------------------------------------------------------------------------
(* The commands.  What they are given stands on the command line; what they *)
(* read is what the files say when they start.                              *)

ModeOr(mode, suite) == IF mode = None THEN suite.mode ELSE mode

Begin(u, do) ==
    /\ command[u] = None /\ begun < world.commands
    /\ begun' = begun + 1
    /\ command' = [command EXCEPT ![u] = do]
    /\ UNCHANGED <<world, file, results>>

\* suite create reads no suite: it overwrites the file.
CreateSuite(u, traces, mode) ==
    /\ command[u] = None /\ begun < world.commands
    /\ begun' = begun + 1
    /\ file' = Created(traces, mode)
    /\ UNCHANGED <<world, results, command>>

BeginAdd(u, traces, mode, replace) ==
    /\ file # None
    /\ Begin(u, [op |-> "add", suite |-> file, traces |-> traces, mode |-> ModeOr(mode, file),
                 replace |-> replace])

BeginRemove(u, ids) ==
    /\ file # None
    /\ Begin(u, [op |-> "remove", suite |-> file, ids |-> ids])

BeginPrune(u, statuses) ==
    /\ file # None /\ results # None
    /\ Begin(u, [op |-> "prune", suite |-> file, cases |-> results.cases, statuses |-> statuses])

BeginRun(u, mode, rules) ==
    /\ file # None
    /\ Begin(u, [op |-> "run", suite |-> file, mode |-> ModeOr(mode, file), rules |-> rules,
                 replayed |-> <<>>])

End(u) == command' = [command EXCEPT ![u] = None]

FinishAdd(u) ==
    /\ command[u] # None /\ command[u].op = "add"
    /\ file' = Added(command[u].suite, command[u].traces, command[u].mode, command[u].replace)
    /\ End(u)
    /\ UNCHANGED <<world, results, begun>>

Named(do) == IF do.op = "remove" THEN do.ids ELSE WithStatus(do.cases, do.statuses)

\* A remove of every case fails, and so does a prune unless it removes none.
FinishRemoval(u) ==
    /\ command[u] # None /\ command[u].op \in {"remove", "prune"}
    /\ LET rest == Without(command[u].suite, Named(command[u])) IN
       file' = IF rest.cases = <<>> THEN file ELSE rest
    /\ End(u)
    /\ UNCHANGED <<world, results, begun>>

-----------------------------------------------------------------------------
\* Mutation: the saved verification is used whatever its mode.
BaselineAsSaved(case, mode) == case.trace.verified[case.mode]

\* _case_baseline_qa: a verification saved in another mode is not used.
Baseline(case, mode) ==
    IF case.mode = mode THEN case.trace.verified[case.mode] ELSE case.trace.verified[mode]

\* _run_case: the endpoint's answer is verified and compared; any exception,
\* of the call or of the conversion, makes an error of the case.
Outcome(case, mode, answer) ==
    IF answer = None THEN [id |-> case.id, status |-> "error", base |-> None, cur |-> None]
    ELSE LET b == Baseline(case, mode)
             c == answer[mode] IN
         [id |-> case.id, status |-> IF CaseFails(b, c) THEN "failed" ELSE "passed",
          base |-> b, cur |-> c]

Replay(u, answer) ==
    /\ command[u] # None /\ command[u].op = "run"
    /\ LET n == Len(command[u].replayed) + 1 IN
       /\ n <= Len(command[u].suite.cases)
       /\ command' = [command EXCEPT ![u].replayed =
             Append(@, Outcome(command[u].suite.cases[n], command[u].mode, answer))]
    /\ UNCHANGED <<world, file, results, begun>>

\* Mutation: a case that could not be replayed is no failure.
FiresIgnoringErrors(rule, cases) ==
    LET Some(Test(_)) == \E k \in DOMAIN cases : cases[k].cur # None /\ Test(cases[k]) IN
    CASE rule = "failed_case" -> \E k \in DOMAIN cases : cases[k].status = "failed"
      [] rule = "error" -> Some(LAMBDA r : r.status = "error")
      [] rule = "any_failure" -> \E k \in DOMAIN cases : cases[k].status = "failed"
      [] rule = "regression" -> Some(LAMBDA r : Regression(r.base, r.cur))
      [] rule = "should_abstain" -> Some(LAMBDA r : r.cur.abstain)
      [] rule = "unsupported" ->
           Some(LAMBDA r : \E k \in DOMAIN r.cur.claims : r.cur.claims[k].verdict = "unsupported")
      [] rule = "high_risk" -> Some(LAMBDA r : RiskLevel(r.cur) = 3)
      [] rule = "medium_risk" -> Some(LAMBDA r : RiskLevel(r.cur) >= 2)

\* suite_failures: a rule fires on the summary of the cases; one that could not
\* be replayed has no risk, claim or regression.
Fires(rule, cases) ==
    LET Some(Test(_)) == \E k \in DOMAIN cases : cases[k].cur # None /\ Test(cases[k]) IN
    CASE rule = "failed_case" -> \E k \in DOMAIN cases : cases[k].status = "failed"
      [] rule = "error" -> \E k \in DOMAIN cases : cases[k].status = "error"
      [] rule = "any_failure" -> \E k \in DOMAIN cases : cases[k].status # "passed"
      [] rule = "regression" -> Some(LAMBDA r : Regression(r.base, r.cur))
      [] rule = "should_abstain" -> Some(LAMBDA r : r.cur.abstain)
      [] rule = "unsupported" ->
           Some(LAMBDA r : \E k \in DOMAIN r.cur.claims : r.cur.claims[k].verdict = "unsupported")
      [] rule = "high_risk" -> Some(LAMBDA r : RiskLevel(r.cur) = 3)
      [] rule = "medium_risk" -> Some(LAMBDA r : RiskLevel(r.cur) >= 2)

\* Without --fail-on, failed cases and errors make the command fail.
Rules(given) == IF given = {} THEN {"failed_case", "error"} ELSE given

WriteResults(u) ==
    /\ command[u] # None /\ command[u].op = "run"
    /\ Len(command[u].replayed) = Len(command[u].suite.cases)
    /\ results' = [cases |-> command[u].replayed, rules |-> Rules(command[u].rules),
                   exit |-> IF \E rule \in Rules(command[u].rules) : Fires(rule, command[u].replayed)
                            THEN 1 ELSE 0]
    /\ End(u)
    /\ UNCHANGED <<world, file, begun>>

Next == \E u \in Users :
    \/ \E traces \in world.given, mode \in world.modes \ {None} : CreateSuite(u, traces, mode)
    \/ \E traces \in world.given, mode \in world.modes, replace \in BOOLEAN :
          BeginAdd(u, traces, mode, replace)
    \/ \E ids \in world.removed : BeginRemove(u, ids)
    \/ \E statuses \in world.pruned : BeginPrune(u, statuses)
    \/ \E mode \in world.modes, rules \in world.rules : BeginRun(u, mode, rules)
    \/ FinishAdd(u)
    \/ FinishRemoval(u)
    \/ \E answer \in world.answers : Replay(u, answer)
    \/ WriteResults(u)

Spec == Init /\ [][Next]_vars

-----------------------------------------------------------------------------
CasesOf(f) == IF f = None THEN {} ELSE {f.cases[k] : k \in DOMAIN f.cases}

Failures(r) == {k \in DOMAIN r.claims : IsFailure(r.claims[k])}

\* A new result is no worse than its baseline: in the same mode, the claims and
\* their citations are sound, what is left of root causes and of missing
\* citations was there before, and the system need not have abstained.
NoWorse(b, c) ==
    /\ b.mode = c.mode /\ ~c.abstain
    /\ \A k \in DOMAIN c.claims : /\ c.claims[k].verdict = "supported"
                                  /\ c.claims[k].citation \notin BadCitations
    /\ Cardinality(Failures(c)) <= Cardinality(Failures(b))
    /\ CitationMismatches(c) <= CitationMismatches(b)

\* "fail when evidence quality regresses or a saved failure still reproduces":
\* a run that fails on failed cases and errors and ends with 0 has replayed
\* every case, and no answer is worse than its baseline (run_suite,
\* suite_failures, _case_failures, compare_verifications).
GreenRunIsEarned ==
    results # None /\ results.exit = 0
      /\ ({"failed_case", "error"} \subseteq results.rules \/ "any_failure" \in results.rules) =>
        \A k \in DOMAIN results.cases :
            results.cases[k].cur # None /\ NoWorse(results.cases[k].base, results.cases[k].cur)

\* No two cases of a suite have one id, whatever names the traces have and in
\* whatever order they are added, replaced and removed (_unique_case_id): remove,
\* prune and the results of a run go by ids.
IdsAreUnique ==
    file # None => \A j, k \in DOMAIN file.cases : j # k => file.cases[j].id # file.cases[k].id

\* A replacement may take case d out: a given trace has its name, or several
\* given traces share the name of which its id is a suffixed form.
IsReplaced(d, traces) ==
    \/ \E k \in DOMAIN traces : traces[k].name = d.id
    \/ \E j, k \in DOMAIN traces : /\ j # k /\ traces[j].name = traces[k].name
                                   /\ d.id = Append(traces[j].name, d.id[Len(d.id)])

\* Why a step may take case d out of the file.
MayDrop(u, d) ==
    LET do == command[u] IN
    /\ do # None /\ command'[u] = None
    /\ \/ do.suite # file   \* another command has written since this one read
       \/ do.op \in {"remove", "prune"} /\ d.id \in Named(do)
       \/ do.op = "add" /\ do.replace /\ IsReplaced(d, do.traces)

\* A case stays in the suite until it is removed by its id, pruned by its status,
\* replaced by its name or overwritten: by create, or by a command that had read
\* the file before another one wrote it.
NoCaseIsLost ==
    \A d \in CasesOf(file) \ CasesOf(file') :
        command' = command \/ \E u \in Users : MayDrop(u, d)
=============================================================================
