----------------------------- MODULE SourceTrust -----------------------------
(***************************************************************************)
(* How far a claim's best source can be trusted beside the other sources   *)
(* that were retrieved (verify/source_trust).  For one claim:              *)
(*                                                                         *)
(*   src[k]   what the metadata of context k says: canonical, authority    *)
(*            (percent), stale, status, group and grouped (the group is    *)
(*            named there), time and version (0 unknown), abstain;         *)
(*   sig[k]   what k says of the claim: verdict, polar ("none", "pair" of  *)
(*            opposed words or "lifecycle"), clash (it contradicts the     *)
(*            claim anywhere), lifecycle (something was replaced or        *)
(*            retired) and historic (it speaks of the past);               *)
(*   b        the best context.                                            *)
(*                                                                         *)
(* "Legacy" reasoning relates sources by their metadata, "hybrid" by what  *)
(* they say as well.                                                       *)
(***************************************************************************)
EXTENDS ClaimVerdict

Fresh == {"current", "fresh", "active", "latest"}
StaleWords == {"stale", "stale_source", "grounded_but_stale", "stale_or_version_conflicted"}

IsStale(s) == s.stale \/ s.status \in StaleWords
IsHigh(s) == s.canonical \/ s.authority >= 85

ClaimConflict(g) == g.verdict = "contradicted" \/ g.clash

Related(src, sig, b, s, hybrid) ==
    IF hybrid THEN \/ src[b].group = src[s].group /\ src[b].grouped /\ src[s].grouped
                   \/ ClaimConflict(sig[s])
    ELSE src[b].group = src[s].group

\* The sources that contradict the claim, or none of them when the best one
\* tells that what they say is over.
Conflicting(src, sig, b, hybrid) ==
    {s \in DOMAIN sig :
        /\ sig[s].verdict = "contradicted" \/ sig[s].polar # "none" \/ (hybrid /\ ClaimConflict(sig[s]))
        /\ hybrid /\ b # None /\ sig[b].lifecycle =>
              s # b /\ ~(~sig[s].lifecycle /\ sig[s].historic)}

\* a is above b whatever they speak of.
Outranks(src, a, b) ==
    \/ src[a].canonical /\ ~src[b].canonical
    \/ src[a].authority >= src[b].authority + 15

\* An unknown time or version is 0.
Later(src, a, b) == src[a].time > src[b].time \/ src[a].version > src[b].version
KnownLater(src, a, b) ==
    \/ src[b].time > 0 /\ src[a].time > src[b].time
    \/ src[b].version > 0 /\ src[a].version > src[b].version

\* _stronger_conflicts and _legacy_stronger_conflicts
Stronger(src, sig, b, all, hybrid) ==
    IF b = None THEN Conflicting(src, sig, b, hybrid) \cap all
    ELSE {s \in (Conflicting(src, sig, b, hybrid) \cap all) \ {b} :
            \/ Outranks(src, s, b)
            \/ Related(src, sig, b, s, hybrid) /\ (Later(src, s, b) \/ (hybrid /\ sig[s].lifecycle))}

\* _newer_related_sources and _legacy_newer_related_sources
Newer(src, sig, b, all, hybrid) ==
    IF b = None THEN {}
    ELSE {s \in all \ {b} :
            /\ Related(src, sig, b, s, hybrid)
            /\ IF hybrid THEN Later(src, s, b) \/ (ClaimConflict(sig[s]) /\ sig[s].lifecycle)
               ELSE KnownLater(src, s, b)}

\* Mutation: a source of about the same authority gives way, too.
WeakerOfPeers(src, sig, b, s) ==
    \/ src[b].canonical /\ ~src[s].canonical
    \/ src[b].authority + 15 >= src[s].authority
    \/ Related(src, sig, b, s, TRUE) /\ KnownLater(src, b, s)

\* _conflict_is_weaker_than_best
Weaker(src, sig, b, s) ==
    \/ Outranks(src, b, s)
    \/ Related(src, sig, b, s, TRUE) /\ KnownLater(src, b, s)

\* _unresolved_conflicts
Unresolved(src, sig, b, all) ==
    IF b = None THEN {}
    ELSE {s \in (Conflicting(src, sig, b, TRUE) \cap all) \ {b} : ~Weaker(src, sig, b, s)}

-----------------------------------------------------------------------------
\* source_assessment: heard, the contexts whose name the query asks for, or all.
Assessment(src, sig, b, heard, hybrid) ==
    [stronger   |-> Stronger(src, sig, b, heard, hybrid),
     newer      |-> Newer(src, sig, b, heard, hybrid),
     unresolved |-> IF hybrid THEN Unresolved(src, sig, b, heard) ELSE {}]

\* The tail of source_status_from_assessment, for a source nothing speaks against.
UncontestedStatus(s) ==
    IF IsStale(s) THEN "grounded_but_stale"
    ELSE IF s.authority < 40 THEN "grounded_by_low_authority_source"
    ELSE IF IsHigh(s) THEN "supported_by_canonical_source"
    ELSE IF s.status # "" THEN s.status ELSE "freshness_unknown"

\* _query_targets_historical_source: it speaks of the past or names the version.
TargetsHistorical(query, s) ==
    query.historical \/ (query.version > 0 /\ s.version = query.version)

StatusOfSupported(s, sig, a, query, hybrid) ==
    LET Polar == \E k \in a.stronger : sig[k].polar # "none" IN
    IF hybrid /\ TargetsHistorical(query, s) /\ s.status = "" /\ s.authority >= 40 THEN "historical_source"
    ELSE IF IsStale(s) /\ query.current THEN "grounded_but_stale"
    ELSE IF ~hybrid /\ Polar THEN "grounded_but_conflicted"
    ELSE IF a.newer # {} THEN "grounded_but_stale"
    ELSE IF a.stronger # {} \/ a.unresolved # {} THEN "grounded_but_conflicted"
    ELSE UncontestedStatus(s)

StatusOfOther(s, a) ==
    IF a.stronger # {} THEN "conflicting_source"
    ELSE IF s.status \in {"stale", "stale_source", "grounded_but_stale"} THEN "stale_source"
    ELSE IF s.status \in Fresh /\ IsHigh(s) THEN "current_canonical_source"
    ELSE IF s.status # "" THEN s.status
    ELSE IF IsHigh(s) THEN "current_canonical_source" ELSE "freshness_unknown"

SourceStatus(verdict, src, sig, b, a, query, hybrid) ==
    IF b = None THEN "no_source"
    ELSE IF verdict = "supported" THEN StatusOfSupported(src[b], sig, a, query, hybrid)
    ELSE StatusOfOther(src[b], a)
=============================================================================
