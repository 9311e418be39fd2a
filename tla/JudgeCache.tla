----------------------------- MODULE JudgeCache ------------------------------
(***************************************************************************)
(* CachedJudge over JsonJudgeCache (verify/judges.py): verdicts of a judge *)
(* are kept in one JSON file.  A process reads the file once, writes all   *)
(* its entries to a .tmp file beside it and renames that over the file.    *)
(* The name of the .tmp file is the same in every process, and nothing     *)
(* locks it: a second process opens the very file the first is writing,    *)
(* and goes on writing into it after the first has renamed it.             *)
(*                                                                         *)
(* A file is the sequence of the blocks written to it, block <<e, i>> being *)
(* the i-th of the text for the entries e, one longer than e is large.     *)
(***************************************************************************)
EXTENDS Naturals, Sequences, FiniteSets

CONSTANTS
    Processes,
    Claims,       \* what a judge is asked
    Models,       \* the judge's model, part of the key
    MaxRequests,  \* bound: verify_claim calls
    MaxCrashes,   \* bound: processes that die
    NoFile, NotLoaded

VARIABLES
    files,     \* files[f]: the blocks of file f, in the order files were made
    path, tmp, \* which file the two names stand for, NoFile if none
    pc,        \* pc[p]: "idle", "judging", "writing", "renaming", "failed"
    asked,     \* asked[p]: the claim and model of the call
    entries,   \* entries[p]: _entries
    handle,    \* handle[p]: the file p has open and the next block to write
    requests, crashes,
    overlapped \* two processes had the .tmp file open at once

vars == <<files, path, tmp, pc, asked, entries, handle, requests, crashes, overlapped>>

Requests == Claims \X Models
NoHandle == [file |-> NoFile, next |-> 1]

Init ==
    /\ files = <<>>
    /\ path = NoFile /\ tmp = NoFile
    /\ pc = [p \in Processes |-> "idle"]
    /\ asked \in [Processes -> {CHOOSE r \in Requests : TRUE}]
    /\ entries = [p \in Processes |-> NotLoaded]
    /\ handle = [p \in Processes |-> NoHandle]
    /\ requests = 0 /\ crashes = 0
    /\ overlapped = FALSE

-----------------------------------------------------------------------------
(* The text of a file.                                                     *)

Size(e) == Cardinality(e) + 1
Text(e) == [i \in 1..Size(e) |-> <<e, i>>]
IsJson(f) == files[f] # <<>> /\ files[f] = Text(files[f][1][1])
Read(f) == files[f][1][1]

\* Writing past the end of a file another process emptied leaves a hole.
Hole == <<{}, 0>>
Put(blocks, i, block) ==
    [j \in 1..(IF i > Len(blocks) THEN i ELSE Len(blocks)) |->
        IF j = i THEN block ELSE IF j <= Len(blocks) THEN blocks[j] ELSE Hole]

-----------------------------------------------------------------------------
(* The entries of the cache are those requests whose verdict it holds: the *)
(* key (judge_cache_key) is of the claim with its contexts, and the model. *)

\* Mutation: entries are added to what this call made only.
WithEntryAlone(e, r) == {r}

\* entries[key] = dict(payload)
WithEntry(e, r) == e \cup {r}

-----------------------------------------------------------------------------
\* _load: what the entries become, nothing if the file cannot be read.
Loadable(p) ==
    IF entries[p] # NotLoaded THEN {entries[p]}
    ELSE IF path = NoFile THEN {{}}
    ELSE IF IsJson(path) THEN {Read(path)} ELSE {}

\* verify_claim up to the cache's answer: a hit returns, a miss goes on to the judge.
Ask(p, r) ==
    /\ pc[p] = "idle" /\ requests < MaxRequests
    /\ requests' = requests + 1
    /\ asked' = [asked EXCEPT ![p] = r]
    /\ IF Loadable(p) = {}
       THEN pc' = [pc EXCEPT ![p] = "failed"] /\ UNCHANGED entries
       ELSE \E e \in Loadable(p) :
              /\ entries' = [entries EXCEPT ![p] = e]
              /\ \/ r \notin e /\ pc' = [pc EXCEPT ![p] = "judging"]
                 \/ r \in e /\ UNCHANGED pc
    /\ UNCHANGED <<files, path, tmp, handle, crashes, overlapped>>

\* The judge cannot produce a verdict: nothing is cached.
JudgeFails(p) ==
    /\ pc[p] = "judging"
    /\ pc' = [pc EXCEPT ![p] = "idle"]
    /\ UNCHANGED <<files, path, tmp, asked, entries, handle, requests, crashes, overlapped>>

\* Mutation: the entries are written to the file itself.
TargetDirect == path

\* tmp_path
Target == tmp

\* The verdict comes; write_text opens the .tmp file and empties it, or makes it.
OpenTmp(p) ==
    /\ pc[p] = "judging"
    /\ pc' = [pc EXCEPT ![p] = "writing"]
    /\ entries' = [entries EXCEPT ![p] = WithEntry(@, asked[p])]
    /\ IF Target = NoFile
       THEN files' = Append(files, <<>>) /\ tmp' = Len(files) + 1
       ELSE files' = [files EXCEPT ![Target] = <<>>] /\ tmp' = Target
    /\ handle' = [handle EXCEPT ![p] = [file |-> tmp', next |-> 1]]
    /\ overlapped' = (overlapped \/ \E q \in Processes : handle[q].file = tmp')
    /\ UNCHANGED <<path, asked, requests, crashes>>

WriteBlock(p) ==
    LET h == handle[p]
    IN /\ pc[p] = "writing" /\ h.next <= Size(entries[p])
       /\ files' = [files EXCEPT ![h.file] = Put(@, h.next, Text(entries[p])[h.next])]
       /\ handle' = [handle EXCEPT ![p].next = @ + 1]
       /\ UNCHANGED <<path, tmp, pc, asked, entries, requests, crashes, overlapped>>

CloseTmp(p) ==
    /\ pc[p] = "writing" /\ handle[p].next > Size(entries[p])
    /\ pc' = [pc EXCEPT ![p] = "renaming"]
    /\ UNCHANGED <<files, path, tmp, asked, entries, handle, requests, crashes, overlapped>>

\* tmp_path.replace(self.path); another process may have taken the file away.
Rename(p) ==
    /\ pc[p] = "renaming"
    /\ handle' = [handle EXCEPT ![p] = NoHandle]
    /\ IF tmp = NoFile
       THEN /\ pc' = [pc EXCEPT ![p] = "failed"]
            /\ UNCHANGED <<path, tmp>>
       ELSE /\ path' = tmp /\ tmp' = NoFile
            /\ pc' = [pc EXCEPT ![p] = "idle"]
    /\ UNCHANGED <<files, asked, entries, requests, crashes, overlapped>>

\* The process dies, or ended with an error; another one takes its place.
Restart(p) ==
    /\ \/ pc[p] = "failed" /\ UNCHANGED crashes
       \/ pc[p] # "failed" /\ crashes < MaxCrashes /\ crashes' = crashes + 1
    /\ pc' = [pc EXCEPT ![p] = "idle"]
    /\ entries' = [entries EXCEPT ![p] = NotLoaded]
    /\ handle' = [handle EXCEPT ![p] = NoHandle]
    /\ UNCHANGED <<files, path, tmp, asked, requests, overlapped>>

Next ==
    \E p \in Processes :
       \/ \E r \in Requests : Ask(p, r)
       \/ JudgeFails(p)
       \/ OpenTmp(p)
       \/ WriteBlock(p)
       \/ CloseTmp(p)
       \/ Rename(p)
       \/ Restart(p)

Spec == Init /\ [][Next]_vars

-----------------------------------------------------------------------------
TypeOK ==
    /\ path \in DOMAIN files \cup {NoFile} /\ tmp \in DOMAIN files \cup {NoFile}
    /\ pc \in [Processes -> {"idle", "judging", "writing", "renaming", "failed"}]
    /\ asked \in [Processes -> Requests]
    /\ \A p \in Processes :
          /\ pc[p] \in {"judging", "writing", "renaming"} => entries[p] # NotLoaded
          /\ (handle[p].file # NoFile) = (pc[p] \in {"writing", "renaming"})
    /\ requests \in 0..MaxRequests /\ crashes \in 0..MaxCrashes

\* The file under the cache's name, once there, can be read.
CacheIsReadable == path # NoFile => IsJson(path)

\* What a process that starts now would read.
Cached == IF path = NoFile THEN {} ELSE Read(path)

\* With several processes the file is unreadable, or a call fails, only after
\* two of them had the .tmp file open at the same time.
BreaksOnlyByOverlap ==
    ~overlapped => CacheIsReadable /\ \A p \in Processes : pc[p] # "failed"
=============================================================================
