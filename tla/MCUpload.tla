------------------------------ MODULE MCUpload -------------------------------
(***************************************************************************)
(* The client of the SDK, in two parts: what sessions log under every      *)
(* policy (Session), and the upload of local traces to a host (Upload).    *)
(***************************************************************************)
EXTENDS Upload, Session, TLC

CONSTANTS
    k1, k2, q, e1, e2,                                          \* of Upload
    fact, secret, silent, manual, draft, current, n1, n2, n3    \* of Session

VARIABLE part

-----------------------------------------------------------------------------
(* What the local traces hold: one of six calls, or two small ones that    *)
(* can be uploaded twice.                                                  *)

Full    == [chunks |-> {k1, k2}, selected |-> {k1}, answer |-> FALSE, checks |-> {q}, events |-> <<e1, e2>>]
Replied == [chunks |-> {}, selected |-> {}, answer |-> TRUE, checks |-> {}, events |-> <<>>]
Opened  == [chunks |-> {}, selected |-> {}, answer |-> FALSE, checks |-> {}, events |-> <<>>]

FullOrSmall == {<<Full>>, <<Opened, Replied>>}

-----------------------------------------------------------------------------
(* What sessions log: chunks with and without names, the second list with  *)
(* a chunk that the settings may not show; citations of one chunk, or of   *)
(* two of which one may not be there.                                      *)

Chunk(name, content, source, stance, relevance) ==
    [name |-> name, content |-> content, source |-> source, stance |-> stance, relevance |-> relevance]

SomeTraces ==
    {[query |-> secret, metadata |-> <<>>],
     [query |-> fact, metadata |-> ("question_type" :> Unanswerable) @@ ("expected_sources" :> manual)
                                     @@ ("expected_failure" :> draft)]}
SomeChunks ==
    {<<Chunk(n1, fact, manual, current, 900)>>,
     <<Chunk(n2, secret, Nothing, draft, 300), Chunk(Nothing, fact, manual, Neutral, Nothing)>>}
SomeNames == {{}, {n1, n2}}
SomeReplies == {[text |-> fact, tokens |-> 1000], [text |-> silent, tokens |-> 9000]}
SomeCitations ==
    {{[claim |-> fact, source |-> n1]}, {[claim |-> secret, source |-> n1], [claim |-> fact, source |-> n2]}}
AnEvent == {[name |-> fact, input |-> {secret}, output |-> {silent}, error |-> Nothing]}

MadeUpNames == <<n3, n3>>
KeysListed == ("" :> {}) @@ ("question_type" :> {"question_type"})

\* Equal texts overlap, the fact and the secret by half, and two markers in a word.
InCommon(v, w) ==
    IF v = w THEN 1000
    ELSE IF {v.form, w.form} \subseteq Fields THEN 333
    ELSE IF {v.of, w.of} = {fact, secret} /\ {v.form, w.form} \subseteq {"plain", "masked"} THEN 500
    ELSE 0
OverlapTable == [v \in Values |-> [w \in Values |-> InCommon(v, w)]]

\* Every profile and protection by some layer, layers that contradict each other,
\* hosts, and settings that the client refuses.
Unset == [direct |-> NoLayer, env |-> NoLayer, file |-> Nothing, policy |-> Nothing,
          patterns |-> FALSE, cipher |-> FALSE]
Own == [profile |-> "standard", allowlist |-> Nothing, hashOnly |-> FALSE, patterns |-> TRUE, cipher |-> TRUE]
StrictFile == [DefaultFile EXCEPT !.privacy = "strict", !.chunk_text = "false", !.answer_text = "false"]
SomeSettings ==
    {Unset,
     [Unset EXCEPT !.direct.privacy = "strict", !.env.privacy = "standard", !.cipher = TRUE],
     [Unset EXCEPT !.env.privacy = "strict", !.env.allowlist = "question_type"],
     [Unset EXCEPT !.patterns = TRUE, !.cipher = TRUE],
     [Unset EXCEPT !.env.hash_only = "on", !.patterns = TRUE, !.cipher = TRUE],
     [Unset EXCEPT !.file = StrictFile],
     [Unset EXCEPT !.file = StrictFile, !.policy = Own],
     [Unset EXCEPT !.direct.url = "url", !.env.api_key = "key", !.patterns = TRUE],
     [Unset EXCEPT !.env.url = "url", !.direct.api_key = "key", !.direct.privacy = "strict"],
     [Unset EXCEPT !.env.url = "url", !.direct.local_only = "true", !.cipher = TRUE],
     [Unset EXCEPT !.env.mode = "hosted", !.cipher = TRUE],
     [Unset EXCEPT !.direct.privacy = "none"]}

-----------------------------------------------------------------------------
(* The parts; in each, the variables of the other stand still.             *)

NoSession ==
    /\ settings = Nothing /\ api = "sync" /\ client = "none" /\ session = "new"
    /\ rows = Nothing /\ shadow = Nothing /\ inflight = {} /\ sent = {} /\ logs = 0
    /\ named = {} /\ chosen = {} /\ cited = {}
NoUpload ==
    /\ Init /\ traces = <<>> /\ run = "returned" /\ runs = 0 /\ at = 1 /\ step = 0 /\ target = None
    /\ ops = [c \in Calls |-> None] /\ remote = [r \in Requests |-> None] /\ uploaded = {}

MCInit ==
    \/ part = "upload" /\ UploadInit /\ NoSession
    \/ part = "session" /\ SessionInit /\ NoUpload

UploadStep == part = "upload" /\ UploadNext /\ UNCHANGED <<part, sessionVars>>
SessionStep == part = "session" /\ SessionNext /\ UNCHANGED <<part, allvars>>

\* The fairness of UploadFairSpec.
MCSpec ==
    /\ MCInit /\ [][UploadStep \/ SessionStep]_<<part, allvars, sessionVars>>
    /\ WF_allvars(part = "upload" /\ Client) /\ WF_allvars(part = "upload" /\ TransportStep)
=============================================================================
