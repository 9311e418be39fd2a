------------------------------- MODULE Session --------------------------------
(***************************************************************************)
(* A session of the SDK's client (client.py): the client is built from     *)
(* three layers of settings (config.py), what the session logs goes        *)
(* through the privacy policy (privacy.py) to the local transport          *)
(* (local.py) or to a host, and an evaluation reads it back.               *)
(*                                                                         *)
(* Here a call of the local store is one step: TraceStore has what other   *)
(* clients do between its statements.  A text is a member of Texts; what a *)
(* policy makes of it is a record that says how it was changed, of which   *)
(* text.  Whether the policy changes what two texts have in common is in   *)
(* the table Overlap.                                                      *)
(***************************************************************************)
EXTENDS Reliability, Sequences

CONSTANTS
    Texts,          \* texts and metadata values an application logs
    Matched,        \* those of them a redaction pattern or redactor changes
    Unanswerable, NoFailure, Neutral,   \* metadata values the evaluation looks for
    Abstaining,     \* answers that read as abstentions
    Names,          \* ids of chunks
    Unnamed,        \* Unnamed[i]: the id the local transport makes up for the i-th chunk of a call
    Listed,         \* Listed[word]: the metadata keys an allowlist names
    Overlap,        \* _support_score(claim, text), in thousandths
    SettingsGiven,  \* what clients are built with
    Traces, ChunkLists, NameSets, Replies, CitationSets, AgentEvents,  \* what sessions log
    MaxLogs         \* bound on the calls of a session

TextOrNothing == Texts \cup {Nothing}
\* A chunk as it is normalized: a relevance of 0 is taken as none.
ChunkItem == [name : Names \cup {Nothing}, content : Texts, source : TextOrNothing,
              stance : TextOrNothing, relevance : 1..1000 \cup {Nothing}]

Profiles == {"standard", "strict"}
Policies == [profile : Profiles, allowlist : {Nothing} \cup SUBSET STRING,
             hashOnly : BOOLEAN, patterns : BOOLEAN, cipher : BOOLEAN]

\* What is given of the settings as an argument, in the environment, or in a file.
Keys == {"mode", "url", "local_only", "api_key", "privacy", "hash_only", "allowlist",
         "chunk_text", "answer_text"}
Layer == [Keys -> STRING \cup {Nothing}]
Settings == [direct : Layer, env : Layer, file : Layer \cup {Nothing},
             policy : Policies \cup {Nothing}, patterns : BOOLEAN, cipher : BOOLEAN]

\* What may be set and logged.
ASSUME InputsAssumption ==
    /\ SettingsGiven \subseteq Settings
    /\ \A t \in Traces : t.query \in Texts /\ \A key \in DOMAIN t.metadata : t.metadata[key] \in Texts
    /\ ChunkLists \subseteq Seq(ChunkItem) /\ NameSets \subseteq SUBSET Names
    /\ Replies \subseteq [text : Texts, tokens : Nat \cup {Nothing}]
    /\ CitationSets \subseteq SUBSET [claim : Texts, source : Names]
    /\ AgentEvents \subseteq [name : TextOrNothing, input : SUBSET Texts, output : SUBSET Texts,
                              error : TextOrNothing]
    /\ Unnamed \in Seq(Names) /\ \A chunks \in ChunkLists : Len(chunks) <= Len(Unnamed)

\* Citations are a set: no two are of one chunk, so they stay apart when their claims are hidden.
ASSUME CitationsAssumption ==
    \A citations \in CitationSets :
        IsFiniteSet(citations) /\ \A k, j \in citations : k.source = j.source => k = j

VARIABLES
    settings,   \* arguments, environment and file
    client,     \* "none", or what was built: "local", "hosted" or "refused"
    api,        \* ContextTrace ("sync") or AsyncContextTrace ("async")
    session,    \* "new", "entering" while its start is awaited, "open"
    rows,       \* the trace in the local store
    shadow,     \* the same for a client that has no cipher, to compare
    inflight,   \* payloads of an async client on their way
    sent,       \* payloads that reached the host
    logs,       \* calls the session has made
    named, chosen, cited   \* what it has logged: names of chunks, of context, and citations

sessionVars == <<settings, client, api, session, rows, shadow, inflight, sent, logs, named, chosen, cited>>

-----------------------------------------------------------------------------
(* Settings.                                                               *)

\* The value given first; or Nothing.
FirstOf(values) ==
    LET given == {i \in DOMAIN values : values[i] # Nothing} IN
    IF given = {} THEN Nothing ELSE values[CHOOSE i \in given : \A j \in given : i <= j]

TrueWords == {"1", "true", "yes", "on"}
AsBool(value) == value \in TrueWords
AsTuple(value) == IF value = Nothing THEN Nothing ELSE Listed[value]
Truthy(value) == value \notin {Nothing, ""}

NoLayer == [key \in Keys |-> Nothing]

\* What write_default_config writes.
DefaultFile ==
    [NoLayer EXCEPT !.mode = "local", !.local_only = "true", !.chunk_text = "true",
                    !.answer_text = "true", !.privacy = "standard", !.hash_only = "false",
                    !.allowlist = "", !.api_key = "", !.url = ""]

\* A file need not exist, and a value left empty in it is not given.
FileLayer(file) ==
    IF file = Nothing THEN NoLayer
    ELSE [key \in Keys |-> IF Truthy(file[key]) THEN file[key] ELSE Nothing]

\* A setting is that of the first layer that gives it.
Setting(s, key, default) ==
    FirstOf(<<s.direct[key], s.env[key], FileLayer(s.file)[key], default>>)

\* A URL, if an argument or in the environment, asks for a host, unless a mode is given.
AsksForHost(s, layer) == Truthy(layer.url) /\ s.direct.local_only # "true"
Mode(s) ==
    Setting(s, "mode", IF AsksForHost(s, s.direct) \/ AsksForHost(s, s.env) THEN "hosted" ELSE "local")

Acceptable(s) ==
    /\ Mode(s) \in {"hosted", "local"}
    /\ Setting(s, "privacy", "standard") \in Profiles

\* Mutation: a policy that is strict by the settings keeps all metadata.
PolicyKeepingMetadata(s) ==
    IF s.policy # Nothing THEN s.policy
    ELSE [profile |-> Setting(s, "privacy", "standard"),
          allowlist |-> AsTuple(Setting(s, "allowlist", Nothing)),
          hashOnly |-> AsBool(Setting(s, "hash_only", "false")),
          patterns |-> s.patterns, cipher |-> s.cipher]

\* The policy of a client: its own if it is given one.
PolicyOf(s) ==
    IF s.policy # Nothing THEN s.policy
    ELSE LET profile == Setting(s, "privacy", "standard")
             list == AsTuple(Setting(s, "allowlist", Nothing)) IN
         [profile |-> profile,
          allowlist |-> IF list # Nothing THEN list ELSE IF profile = "strict" THEN {} ELSE Nothing,
          hashOnly |-> AsBool(Setting(s, "hash_only", "false")),
          patterns |-> s.patterns, cipher |-> s.cipher]

Policy == PolicyOf(settings)
WithoutCipher(p) == [p EXCEPT !.cipher = FALSE]

-----------------------------------------------------------------------------
(* The privacy policy.                                                     *)

Value(form, x) == [form |-> form, of |-> x]
Plain(x) == Value("plain", x)
Marker(field) == Value(field, Nothing)   \* "[field redacted]"

Fields == {"query", "chunk_text", "source", "answer_text", "citation_claim", "agent_event_name",
           "tool_input", "tool_output", "agent_error", "metadata"}
Readable == [form : {"plain", "masked", "hash"}, of : Texts] \cup [form : Fields, of : {Nothing}]
Values == Readable \cup [form : {"enc"}, of : Readable]
Idents == [form : {"plain", "id"}, of : Names]

ProtectText(p, field, text) ==
    IF text = Nothing THEN Nothing
    ELSE IF p.hashOnly THEN Value("hash", text)
    ELSE LET shown == IF p.profile = "strict" THEN Marker(field)
                      ELSE IF p.patterns /\ text \in Matched THEN Value("masked", text)
                      ELSE Plain(text)
         IN  IF p.cipher THEN Value("enc", shown) ELSE shown

\* Only the strict profile hides the names of chunks.
ProtectIdentifier(p, name) ==
    IF name = Nothing THEN Nothing ELSE Value(IF p.profile = "strict" THEN "id" ELSE "plain", name)

ProtectMetadata(p, metadata) ==
    [key \in DOMAIN metadata |->
        IF p.allowlist # Nothing /\ key \notin p.allowlist THEN Nothing
        ELSE ProtectText(p, "metadata", metadata[key])]

\* restore: only what a cipher wrote is changed.
Restored(p, v) == IF v # Nothing /\ v.form = "enc" /\ p.cipher THEN v.of ELSE v

-----------------------------------------------------------------------------
(* What a call carries (client.py), and what the policy makes of it        *)
(* (PrivacyPolicy.sanitize).                                               *)

\* Mutation: the names of cited chunks are kept.
SafeCitationKeepingSource(p, citation) ==
    [claim |-> ProtectText(p, "citation_claim", citation.claim), source |-> Plain(citation.source)]

SafeCitation(p, citation) ==
    [claim |-> ProtectText(p, "citation_claim", citation.claim),
     source |-> ProtectIdentifier(p, citation.source)]

SafeChunk(p, item) ==
    [name |-> ProtectIdentifier(p, item.name),
     content |-> ProtectText(p, "chunk_text", item.content),
     source |-> ProtectText(p, "source", item.source),
     stance |-> ProtectMetadata(p, [stance |-> item.stance]).stance,
     relevance |-> item.relevance]

SafeChunks(p, chunks) == [i \in DOMAIN chunks |-> SafeChunk(p, chunks[i])]

SafeEvent(p, event) ==
    [name |-> ProtectText(p, "agent_event_name", event.name),
     input |-> {ProtectText(p, "tool_input", text) : text \in event.input},
     output |-> {ProtectText(p, "tool_output", text) : text \in event.output},
     error |-> ProtectText(p, "agent_error", event.error)]

\* A call whose path sanitize does not know, as those of evaluation sets, is sent as it is.
Sanitized(p, call) ==
    CASE call.kind = "start" ->
            [call EXCEPT !.query = ProtectText(p, "query", @), !.metadata = ProtectMetadata(p, @)]
      [] call.kind \in {"retrieval", "context"} ->
            [call EXCEPT !.chunks = SafeChunks(p, @),
                         !.ids = {ProtectIdentifier(p, name) : name \in call.ids}]
      [] call.kind = "answer" -> [call EXCEPT !.text = ProtectText(p, "answer_text", @)]
      [] call.kind = "citations" -> [call EXCEPT !.citations = {SafeCitation(p, k) : k \in call.citations}]
      [] call.kind = "event" -> [call EXCEPT !.event = SafeEvent(p, call.event)]
      [] OTHER -> call

ChunkTexts(chunk) == {chunk.content, chunk.source, chunk.stance}
EventTexts(event) == {event.name, event.error} \cup event.input \cup event.output

\* The texts of a call that was sanitized.
TextsIn(call) ==
    (CASE call.kind = "start" -> {call.query} \cup {call.metadata[key] : key \in DOMAIN call.metadata}
       [] call.kind \in {"retrieval", "context"} ->
            UNION {ChunkTexts(call.chunks[i]) : i \in DOMAIN call.chunks}
       [] call.kind = "answer" -> {call.text}
       [] call.kind = "citations" -> {k.claim : k \in call.citations}
       [] call.kind = "event" -> EventTexts(call.event)
       [] OTHER -> {}) \ {Nothing}

-----------------------------------------------------------------------------
(* The local transport: what a call writes into the trace t.               *)

Rows == INSTANCE TraceRows WITH
    ChunkIds <- Idents, Contents <- Values, Claims <- Values, Answers <- Values,
    Support <- Overlap, None <- Nothing

ChunkRow == [content : Values, source : Values \cup {Nothing}, stance : Values \cup {Nothing},
             relevance : 1..1000 \cup {Nothing}, selected : BOOLEAN]

ASSUME NothingAssumption ==
    /\ Nothing \notin Profiles \cup TrueWords \cup Texts \cup Names \cup Values \cup Idents \cup ChunkRow \cup {{}}
    /\ Nothing \notin Int

ASSUME OverlapAssumption == Overlap \in [Values -> [Values -> 0..1000]]

\* A chunk without a name gets one for its place in the call.
IdentOf(chunks, i) == IF chunks[i].name = Nothing THEN Plain(Unnamed[i]) ELSE chunks[i].name

\* Texts that the settings keep out of the store are replaced by a marker.
Logged(field, v) == IF AsBool(Setting(settings, field, "true")) THEN v ELSE Marker(field)

Places(chunks, id) == {i \in DOMAIN chunks : IdentOf(chunks, i) = id}
LastOf(places) == CHOOSE i \in places : \A j \in places : j <= i

\* upsert_chunks: the last chunk of a name stays, and so does a selection.
Upserted(table, chunks, selected) ==
    [id \in Idents |->
        LET places == Places(chunks, id)  last == chunks[LastOf(places)] IN
        IF places = {} THEN table[id]
        ELSE [content |-> Logged("chunk_text", last.content), source |-> last.source,
              stance |-> last.stance, relevance |-> last.relevance,
              selected |-> selected \/ (table[id] # Nothing /\ table[id].selected)]]

NoTrace == [query |-> Nothing, metadata |-> <<>>, chunks |-> Rows!NoChunks, answer |-> Nothing,
            tokens |-> Nothing, checks |-> {}, events |-> {}, report |-> Nothing]

Handled(t, call) ==
    CASE call.kind = "start" -> [NoTrace EXCEPT !.query = call.query, !.metadata = call.metadata]
      [] call.kind = "retrieval" -> [t EXCEPT !.chunks = Upserted(@, call.chunks, FALSE)]
      [] call.kind = "context" -> [t EXCEPT !.chunks = Upserted(Rows!Marked(@, call.ids), call.chunks, TRUE)]
      [] call.kind = "answer" ->
            [t EXCEPT !.answer = Logged("answer_text", call.text), !.tokens = call.tokens]
      [] call.kind = "citations" -> [t EXCEPT !.checks = Rows!PendingChecks(call.citations)]
      [] call.kind = "event" -> [t EXCEPT !.events = @ \cup {call.event}]

ReadRow(p, row) ==
    [content |-> Restored(p, row.content), source |-> Restored(p, row.source),
     stance |-> Restored(p, row.stance), relevance |-> row.relevance, selected |-> row.selected]
ReadEvent(p, event) ==
    [name |-> Restored(p, event.name), error |-> Restored(p, event.error),
     input |-> {Restored(p, v) : v \in event.input}, output |-> {Restored(p, v) : v \in event.output}]

\* A trace as a client with policy p reads it (PrivacyTransport.get, trace_restorer).
ReadBack(p, t) ==
    [t EXCEPT !.query = Restored(p, @), !.answer = Restored(p, @),
              !.metadata = [key \in DOMAIN @ |-> Restored(p, @[key])],
              !.chunks = [id \in Idents |-> IF @[id] = Nothing THEN Nothing ELSE ReadRow(p, @[id])],
              !.checks = {[claim |-> Restored(p, k.claim), source |-> k.source, status |-> k.status] : k \in @},
              !.events = {ReadEvent(p, event) : event \in @}]

-----------------------------------------------------------------------------
(* The evaluation of a trace (_evaluate_trace of local.py).                *)

\* Mutation: the transport an async client wraps has no restorer.
SnapshotUnlessAsync(p, t) == IF api = "async" THEN t ELSE ReadBack(p, t)

\* What evaluate reads of the store.
Snapshot(p, t) == ReadBack(p, t)

Failure(type) == Value(type, Nothing)

MetadataOf(t, key) == IF key \in DOMAIN t.metadata THEN t.metadata[key] ELSE Nothing
Answered(t) == t.answer # Nothing
Abstained(t) == t.answer \in {Plain(text) : text \in Abstaining}

FailureOf(t) ==
    LET ids == Rows!LoggedIds(t.chunks)
        unsupported == {k \in t.checks : k.status # "directly_supported"}
        expected == MetadataOf(t, "expected_sources")
        failure == MetadataOf(t, "expected_failure")
        stances == {t.chunks[id].stance : id \in ids} \ {Nothing, Plain(Neutral)} IN
    IF expected # Nothing /\ expected \notin {t.chunks[id].source : id \in ids}
      THEN Failure("retrieval_miss")
    ELSE IF MetadataOf(t, "question_type") = Plain(Unanswerable) /\ Answered(t) /\ ~Abstained(t)
      THEN Failure("should_have_abstained")
    ELSE IF failure \notin {Nothing, Plain(NoFailure)} THEN failure
    ELSE IF \E k \in unsupported, id \in ids : Overlap[k.claim][t.chunks[id].content] >= 650
      THEN Failure("citation_mismatch")
    ELSE IF Cardinality(stances) > 1 THEN Failure("conflicting_sources")
    ELSE IF unsupported # {} \/ t.checks = {} THEN Failure("unsupported_answer")
    ELSE Failure("no_failure_detected")

\* A citation of a chunk that is not there is scored against nothing.
ScoreOf(t, k) ==
    IF t.chunks[k.source] = Nothing THEN 0 ELSE Overlap[k.claim][t.chunks[k.source].content]

\* _score_summary
CitationSupport(t) == IF t.checks = {} THEN 0 ELSE Mean([k \in t.checks |-> ScoreOf(t, k)], t.checks)
UnsupportedRate(t) ==
    IF t.checks = {} THEN 1000
    ELSE Rounded(1000 * Cardinality({k \in t.checks : k.status = "unsupported"}), Cardinality(t.checks))

MetricsOf(t, failure) ==
    LET ids == Rows!LoggedIds(t.chunks) IN
    TraceMetrics(CitationSupport(t), UnsupportedRate(t),
                 failure # Failure("no_failure_detected"), failure = Failure("should_have_abstained"),
                 RetrievalQuality([id \in ids |-> t.chunks[id].relevance], {id \in ids : t.chunks[id].selected}),
                 t.tokens)

\* What a trace comes to, its checks judged.
Assessed(t) ==
    LET metrics == MetricsOf(t, FailureOf(t)) IN
    [failure |-> FailureOf(t), metrics |-> metrics, reliability |-> Reliability(metrics)]

\* save_evaluation: a check is found again by its claim, as it is in the store.
Saved(p, t) ==
    LET read == Snapshot(p, t)
        judged == [read EXCEPT !.checks = Rows!Evaluated(read.chunks, @)] IN
    [t EXCEPT !.checks = Rows!WithVerdicts(@, judged.checks), !.report = Assessed(judged)]

-----------------------------------------------------------------------------
(* The client and its session.                                             *)

\* PrivacyTransport.post on a host's transport, and on the local one.
SendToHost(call) ==
    /\ sent' = sent \cup {Sanitized(Policy, call)}
    /\ UNCHANGED <<rows, shadow, inflight>>
KeepLocally(call) ==
    /\ rows' = Handled(rows, Sanitized(Policy, call))
    /\ shadow' = Handled(shadow, Sanitized(WithoutCipher(Policy), call))
    /\ UNCHANGED <<inflight, sent>>

\* An async client's call to a host is on its way when the next one may be made;
\* its local transport answers at once (_AsyncTransportAdapter).
AsyncSend(call) ==
    /\ inflight' = inflight \cup {Sanitized(Policy, call)}
    /\ UNCHANGED <<rows, shadow, sent>>

Dispatch(call) ==
    IF client = "local" THEN KeepLocally(call)
    ELSE IF api = "sync" THEN SendToHost(call) ELSE AsyncSend(call)

Arrive ==
    \E call \in inflight :
        /\ inflight' = inflight \ {call}
        /\ sent' = sent \cup {call}
        /\ session' = IF call.kind = "start" THEN "open" ELSE session
        /\ UNCHANGED <<settings, client, api, rows, shadow, logs, named, chosen, cited>>

SessionInit ==
    /\ settings \in SettingsGiven /\ api \in {"sync", "async"}
    /\ client = "none" /\ session = "new"
    /\ rows = Nothing /\ shadow = Nothing
    /\ inflight = {} /\ sent = {} /\ logs = 0
    /\ named = {} /\ chosen = {} /\ cited = {}

\* contexttrace init, unless there is a file.
InitProject ==
    /\ client = "none" /\ settings.file = Nothing
    /\ settings' = [settings EXCEPT !.file = DefaultFile]
    /\ UNCHANGED <<client, api, session, rows, shadow, inflight, sent, logs, named, chosen, cited>>

\* _build_transport: a host asks for an API key.
LacksKey(s) == Mode(s) = "hosted" /\ ~Truthy(Setting(s, "api_key", Nothing))

\* The constructors raise if a setting is not valid, or the key is missing.
Build ==
    /\ client = "none"
    /\ client' = IF Acceptable(settings) /\ ~LacksKey(settings) THEN Mode(settings) ELSE "refused"
    /\ UNCHANGED <<settings, api, session, rows, shadow, inflight, sent, logs, named, chosen, cited>>

\* __enter__; a session that is entered without having started raises in every call.
Start ==
    /\ client \in {"local", "hosted"} /\ session = "new"
    /\ \E t \in Traces : Dispatch([kind |-> "start", query |-> t.query, metadata |-> t.metadata])
    /\ session' = IF client = "hosted" /\ api = "async" THEN "entering" ELSE "open"
    /\ UNCHANGED <<settings, client, api, logs, named, chosen, cited>>

\* _post
LogCall(call) ==
    /\ session = "open" /\ logs < MaxLogs
    /\ Dispatch(call)
    /\ logs' = logs + 1
    /\ UNCHANGED <<settings, client, api, session>>

NamesIn(chunks) == {chunks[i].name : i \in DOMAIN chunks} \ {Nothing}

LogRetrieval ==
    \E chunks \in ChunkLists :
        /\ LogCall([kind |-> "retrieval", chunks |-> chunks, ids |-> {}])
        /\ named' = named \cup NamesIn(chunks)
        /\ UNCHANGED <<chosen, cited>>

\* Context is named by ids, or given as chunks, or both.
LogContext ==
    \E chunks \in ChunkLists, ids \in NameSets :
        /\ LogCall([kind |-> "context", chunks |-> chunks, ids |-> ids])
        /\ named' = named \cup NamesIn(chunks)
        /\ chosen' = chosen \cup (ids \cap named) \cup NamesIn(chunks)
        /\ UNCHANGED cited

LogAnswer ==
    \E reply \in Replies :
        /\ LogCall([kind |-> "answer", text |-> reply.text, tokens |-> reply.tokens])
        /\ UNCHANGED <<named, chosen, cited>>

LogCitations ==
    \E citations \in CitationSets :
        /\ LogCall([kind |-> "citations", citations |-> citations])
        /\ cited' = citations
        /\ UNCHANGED <<named, chosen>>

\* _agent_event_payload
EventCall(event) == [kind |-> "event", event |-> event]

\* log_agent_event, and the shorthands for tools, memory, planners and errors.
LogAgentEvent ==
    \E event \in AgentEvents :
        /\ LogCall(EventCall(event))
        /\ UNCHANGED <<named, chosen, cited>>

\* A host evaluates by itself (HostedTrace).
Evaluate ==
    /\ client = "local" /\ session = "open" /\ logs < MaxLogs
    /\ rows' = Saved(Policy, rows)
    /\ shadow' = Saved(WithoutCipher(Policy), shadow)
    /\ logs' = logs + 1
    /\ UNCHANGED <<settings, client, api, session, inflight, sent, named, chosen, cited>>

\* _normalize_eval_question
Question(text) == [kind |-> "question", text |-> text]

\* create_eval_set, add_eval_questions and the calls for endpoints: no session.
AskHost ==
    /\ client = "hosted" /\ logs < MaxLogs
    /\ \E text \in Texts : Dispatch(Question(text))
    /\ logs' = logs + 1
    /\ UNCHANGED <<settings, client, api, session, named, chosen, cited>>

SessionNext ==
    \/ InitProject \/ Build \/ Start \/ Arrive
    \/ LogRetrieval \/ LogContext \/ LogAnswer \/ LogCitations \/ LogAgentEvent
    \/ Evaluate \/ AskHost

SessionSpec == SessionInit /\ [][SessionNext]_sessionVars

-----------------------------------------------------------------------------
(* Properties.                                                             *)

\* Every text that is in the store, or that a session has sent, on the wire or
\* at the host.  The report's failure type is not among them: evaluate may save
\* a label that it has read, decrypted, in the metadata.
TextsOfTrace(t) ==
    IF t = Nothing THEN {}
    ELSE ({t.query, t.answer} \cup {t.metadata[key] : key \in DOMAIN t.metadata}
           \cup (UNION {ChunkTexts(t.chunks[id]) : id \in Rows!LoggedIds(t.chunks)})
           \cup {k.claim : k \in t.checks} \cup (UNION {EventTexts(e) : e \in t.events})) \ {Nothing}
TextsKept == TextsOfTrace(rows) \cup UNION {TextsIn(call) : call \in inflight \cup sent}

\* What the settings ask for holds of every text a session has handed on, by
\* whatever call and in whatever field: in the strict profile and with hash_only
\* no text is readable, with a cipher only the store's own markers are, and with
\* patterns none is that they match; a key that is not on the allowlist is absent.
AskedFor(s, key, words) == s.policy = Nothing /\ Setting(s, key, Nothing) \in words
IsProtected(s, v) ==
    /\ AskedFor(s, "privacy", {"strict"}) => v.form \notin {"plain", "masked"}
    /\ AskedFor(s, "hash_only", TrueWords) => v.form \in Fields \cup {"hash"}
    /\ PolicyOf(s).cipher => v.form \notin {"plain", "masked"}
    /\ PolicyOf(s).patterns /\ v.form = "plain" => v.of \notin Matched
HidesMetadata(s) ==
    AskedFor(s, "privacy", {"strict"}) /\ Setting(s, "allowlist", Nothing) = Nothing
TextsAreProtected ==
    /\ \A v \in TextsKept : IsProtected(settings, v)
    /\ rows # Nothing /\ HidesMetadata(settings) =>
          \A key \in DOMAIN rows.metadata : rows.metadata[key] = Nothing

\* "citation edges stay joinable" (docs/privacy.md): under every policy a chunk
\* that the session named, its selection, and the citations of its name meet in
\* the store, and the citation of a name that no chunk has meets none.
Row(name) == rows.chunks[ProtectIdentifier(Policy, name)]
EdgesStayJoinable ==
    rows # Nothing =>
        /\ \A name \in Names \ {Unnamed[i] : i \in DOMAIN Unnamed} :
              /\ Row(name) # Nothing <=> name \in named
              /\ name \in named => (Row(name).selected <=> name \in chosen)
        /\ {k.source : k \in rows.checks} = {ProtectIdentifier(Policy, k.source) : k \in cited}

\* A cipher changes what is stored and nothing else: read back, the trace is the
\* one that a client without it would have stored, and an evaluation comes to the
\* same failure and the same score.  (Not the verdicts of the stored checks: those
\* are not found again by a claim that is encrypted.)
Verdictless(t) == [t EXCEPT !.checks = {<<k.claim, k.source>> : k \in t.checks}]
CipherIsTransparent ==
    rows # Nothing => Verdictless(ReadBack(Policy, rows)) = Verdictless(shadow)

\* A grade and the judgements beside it come from one evaluation by different
\* thresholds: a trace with a failure never gets an A and always a weakness, one
\* without a weakness gets at least a B, and so does one that passes the
\* thresholds of an evaluation run.
GradeIsExplained ==
    rows # Nothing /\ rows.report # Nothing =>
        LET report == rows.report  good == report.reliability.grade \in {"A", "B"} IN
        /\ report.failure # Failure("no_failure_detected") =>
              report.reliability.grade # "A" /\ report.reliability.weaknesses # {}
        /\ report.reliability.weaknesses = {} => good
        /\ ~RunFails(report.metrics.support, report.metrics.unsupported, report.metrics.failures) =>
              good
=============================================================================
