---------------------------- MODULE HarnessCalls -----------------------------
(***************************************************************************)
(* One turn of the loop: the model's answer, the tool calls in it, the     *)
(* tests that run by themselves after an edit, the escalation when nothing *)
(* moves, and the transition the answer asks for.                          *)
(***************************************************************************)
EXTENDS Harness

Allowed(class) == class \in Machine.states[at].tools
Implementing == IsImplementation(at)

Events == (IF at \in States(Machine) THEN DOMAIN On(Machine, at) ELSE {}) \cup {"FAIL"}

-----------------------------------------------------------------------------
(* The answer.                                                             *)

\* A transport error costs a step and is tried again, three times in a row.
WireError ==
    /\ pc = "answer"
    /\ tally' = [tally EXCEPT !.wire = @ + 1]
    /\ IF tally.wire + 1 >= Limit["wire"] THEN Stop ELSE Back
    /\ UNCHANGED <<mode, step, work, cache, hyps, blocked, mind, records>>

AnswerLost ==
    /\ pc = "answer"
    /\ Stop
    /\ UNCHANGED <<mode, step, work, memory, records>>

\* Calls, an event or nothing.  A raw answer names its event itself; a native one
\* names it in a call.
Answer(calls, event) ==
    /\ pc = "answer"
    /\ mode.native => event = "none"
    /\ pc' = "calls"
    /\ turn' = [NoTurn EXCEPT !.left = calls, !.event = event]
    /\ tally' = [tally EXCEPT !.wire = 0,
                              !.parse = IF ~mode.native \/ calls > 0 THEN 0 ELSE @]
    /\ UNCHANGED <<mode, at, inState, step, work, cache, hyps, blocked, mind, records>>

\* Files written out in a raw answer are saved in whatever state the loop is in.
FileBlock(e, event) ==
    /\ pc = "answer"
    /\ ~mode.native
    /\ tree' = tree \cup {e}
    /\ cache' = [cache EXCEPT !.modified = @ \cup {FileOf[e]}]
    /\ pc' = "calls"
    /\ turn' = [NoTurn EXCEPT !.event = event]
    /\ tally' = [tally EXCEPT !.wire = 0, !.parse = IF event = "none" THEN @ ELSE 0]
    /\ UNCHANGED <<mode, at, inState, step, snap, cand, hyps, blocked, mind, records>>

\* No file of a raw answer may be written where it asks for.
FileBlockRefused ==
    /\ pc = "answer"
    /\ ~mode.native
    /\ tally' = [tally EXCEPT !.wire = 0]
    /\ Back
    /\ UNCHANGED <<mode, step, work, cache, hyps, blocked, mind, records>>

\* A write that was cut off is saved as far as it goes, and nothing notes it.
TruncatedWrite(e) ==
    /\ pc = "answer"
    /\ ~mode.native
    /\ tree' = tree \cup {e}
    /\ tally' = [tally EXCEPT !.wire = 0, !.parse = 0]
    /\ Back
    /\ UNCHANGED <<mode, step, snap, cand, cache, hyps, blocked, mind, records>>

ParseBurst == mode.reset /\ Tournament /\ tally.parse + 1 >= Limit["parse"]

\* An answer nobody can read.  A burst of them restarts the hypothesis once, if it
\* is worth it, and then gives it up.
Unreadable(worthRepair) ==
    /\ pc = "answer"
    /\ ~mode.native
    /\ \/ /\ ~ParseBurst
          /\ tally' = [tally EXCEPT !.wire = 0, !.parse = @ + 1]
          /\ Back
          /\ UNCHANGED <<mode, step, work, cache, hyps, blocked, mind, records>>
       \/ /\ ParseBurst
          /\ worthRepair /\ hyps.repaired # hyps.active
          /\ tree' = SnapTree
          /\ cache' = NoCache
          /\ hyps' = [hyps EXCEPT !.repaired = hyps.active]
          /\ blocked' = {}
          /\ tally' = [FreshAttempt(tally) EXCEPT !.wire = 0, !.parse = 0]
          /\ GoTo(ReplanState(Machine))
          /\ UNCHANGED <<mode, step, snap, cand, mind, records>>
       \/ /\ ParseBurst
          /\ ~(worthRepair /\ hyps.repaired # hyps.active)
          /\ HasNext
          /\ tree' = SnapTree
          /\ cache' = NoCache
          /\ hyps' = [NextHypothesis EXCEPT !.repaired = 0]
          /\ blocked' = {}
          /\ tally' = [FreshAttempt(tally) EXCEPT !.wire = 0, !.parse = 0]
          /\ GoTo(ReplanState(Machine))
          /\ UNCHANGED <<mode, step, snap, cand, mind, records>>
       \/ /\ ParseBurst
          /\ ~(worthRepair /\ hyps.repaired # hyps.active)
          /\ ~HasNext
          /\ hyps' = Exhausted
          /\ tally' = [tally EXCEPT !.wire = 0, !.parse = @ + 1]
          /\ Back
          /\ UNCHANGED <<mode, step, work, cache, blocked, mind, records>>

-----------------------------------------------------------------------------
(* Calls that do not write.                                                *)

Calling == pc = "calls" /\ turn.left > 0
Next1 == [turn EXCEPT !.left = @ - 1]

\* A call that changes nothing: bad arguments, a question, or a tool the state
\* does not allow; for the last, some transition may let it in.
CallIgnored(implied) ==
    /\ Calling
    /\ turn' = IF implied = "none" THEN Next1 ELSE [Next1 EXCEPT !.event = implied]
    /\ UNCHANGED <<mode, place, step, work, memory, records>>

CallTransition(event) ==
    /\ Calling
    /\ mode.native
    /\ turn' = IF tally.diag /\ Implementing THEN Next1 ELSE [Next1 EXCEPT !.event = event]
    /\ UNCHANGED <<mode, place, step, work, memory, records>>

Shown(f) == [at |-> at, file |-> f, content |-> FileIn(tree, f)]

\* read_file: what was observed in this state comes first, then what was read of a
\* file that is not marked modified.
Read(f) ==
    /\ Calling
    /\ Allowed("read")
    /\ tally.reads < MaxReads
    /\ LET observed == {r \in cache.seen : r.at = at /\ r.file = f}
           kept == {r \in cache.read : r.file = f}
           stale == observed # {} \/ (kept # {} /\ f \notin cache.modified)
           shown == IF observed # {} THEN observed
                    ELSE IF stale THEN {[r EXCEPT !.at = at] : r \in kept} ELSE {Shown(f)}
       IN /\ cache' = [modified |-> cache.modified \ {f},
                       known |-> cache.known \cup {f},
                       read |-> IF stale THEN cache.read
                                ELSE (cache.read \ kept) \cup {Shown(f)},
                       seen |-> cache.seen \cup shown]
          /\ turn' = [Next1 EXCEPT !.looked = @ \/ (Implementing /\ observed = {})]
    /\ tally' = [tally EXCEPT !.reads = @ + 1]
    /\ UNCHANGED <<mode, place, step, work, hyps, blocked, mind, records>>

\* write_task_reproducer and, once one is qualified, run_task_reproducer.  Where
\* evidence is being acquired both end the state.
EvidenceEvent(delta) ==
    CASE delta = "fixed" -> "TASK_EVIDENCE_FIXED"
      [] delta = "changed" -> "TASK_EVIDENCE_CHANGED"
      [] delta \in {"regressed", "unchanged"} -> "TASK_EVIDENCE_REPAIR"
      [] OTHER -> "TASK_EVIDENCE_UNAVAILABLE"

WriteReproducer(qualifies, delta) ==
    /\ Calling
    /\ mode.causal /\ Allowed("reproduce")
    /\ Broken(tree) => delta # "fixed"
    /\ IF at = "task_evidence_acquisition"
       THEN /\ causal' = IF ~qualifies THEN causal
                         ELSE EvidenceAcquired([causal EXCEPT !.qualified = TRUE], tree, delta)
            /\ turn' = [Next1 EXCEPT !.event =
                            EvidenceEvent(IF qualifies THEN delta ELSE "unavailable")]
       ELSE /\ causal' = ReproducerWritten(causal, qualifies)
            /\ turn' = Next1
    /\ UNCHANGED <<mode, place, step, work, memory, bank, passed, report>>

RunReproducer(delta) ==
    /\ Calling
    /\ mode.causal /\ Allowed("reproduce")
    /\ causal.qualified
    /\ Broken(tree) => delta # "fixed"
    /\ IF at = "task_evidence_acquisition"
       THEN /\ causal' = EvidenceAcquired(causal, tree, delta)
            /\ turn' = [Next1 EXCEPT !.event = EvidenceEvent(delta)]
       ELSE /\ causal' = ReproducerRan(causal, tree, delta)
            /\ turn' = Next1
    /\ UNCHANGED <<mode, place, step, work, memory, bank, passed, report>>

-----------------------------------------------------------------------------
(* Edits.  In an implementation state a chain of guards comes first; each  *)
(* operator below assumes that the ones before it did not object.          *)

Landed(c, f) ==
    [c EXCEPT !.modified = @ \cup {f}, !.read = {r \in @ : r.file # f}, !.seen = {}]

Wrote == [Next1 EXCEPT !.wrote = TRUE]

\* Anywhere else a write is carried out as it comes.
WriteUnguarded(e) ==
    /\ Calling
    /\ Allowed("edit") /\ ~Implementing
    /\ tree' = tree \cup {e}
    /\ cache' = IF e \in Wordy THEN cache ELSE Landed(cache, FileOf[e])
    /\ tally' = IF e \in Wordy THEN tally ELSE [tally EXCEPT !.path = 0]
    /\ turn' = Wrote
    /\ UNCHANGED <<mode, place, step, snap, cand, hyps, blocked, mind, records>>

Editing == Calling /\ Allowed("edit") /\ Implementing

\* A path that does not resolve.  A burst first brings fresh context, where that is
\* on, then gives the hypothesis up, where the lane does so.
BadPath(refresh, switch) ==
    /\ Editing
    /\ LET t == [tally EXCEPT !.path = @ + 1, !.edit = @ + 1]
           burst == t.path >= Limit["path"]
           refreshes == burst /\ refresh /\ ~tally.refreshed
           switches == burst /\ ~refreshes /\ switch /\ Tournament
       IN \/ /\ refreshes
             /\ tally' = [t EXCEPT !.path = 0, !.refreshed = TRUE]
             /\ GoTo(ReplanState(Machine))
             /\ UNCHANGED <<mode, step, work, cache, hyps, blocked, mind, records>>
          \/ /\ switches /\ HasNext
             /\ StartNext
             /\ blocked' = {}
             /\ tally' = [FreshAttempt(t) EXCEPT !.refreshed = FALSE]
          \/ /\ ~refreshes /\ (switches => ~HasNext)
             /\ hyps' = IF switches THEN Exhausted ELSE hyps
             /\ tally' = t
             /\ turn' = Wrote
             /\ UNCHANGED <<mode, place, step, work, cache, blocked, mind, records>>

Refused(e) ==
    \/ e \in blocked
    \/ tally.diag
    \/ FileOf[e] \in tally.recovery
    \/ mode.strict /\ KindOf[e] = "test"

EditRefused(e) ==
    /\ Editing
    /\ Refused(e)
    /\ tally' = [tally EXCEPT !.path = 0]
    /\ turn' = Wrote
    /\ UNCHANGED <<mode, place, step, work, cache, hyps, blocked, mind, records>>

\* The files of the bank's best candidate count as the hypothesis too.
BestFiles == IF ~mode.bank \/ Reanchors(bank) = {} THEN {}
             ELSE {FileOf[e] : e \in Best(Reanchors(bank)).changed}
Quarantined == {f \in Files : Limit["toxic"] > 0 /\ tally.toxic[f] >= Limit["toxic"]}
Anchors == BestFiles \ Quarantined

OffHypothesis(e) ==
    Tournament /\ KindOf[e] # "test" /\ FileOf[e] # Active /\ FileOf[e] \notin Anchors
Drifts(e) == OffHypothesis(e) /\ tally.off + 1 >= Limit["off"]

OnTrack(e) ==
    [tally EXCEPT !.path = 0,
                  !.off = IF OffHypothesis(e) THEN @ + 1 ELSE IF Tournament THEN 0 ELSE @]

\* Mutant: a hypothesis that was given up may come back.
RevisitsNever(f) == FALSE

\* promote_patch_hypothesis_path: never back to one that was given up.
Revisits(f) == \E i \in 1 .. hyps.active - 1 : hyps.list[i] = f
Promotable(f) == (f \in cache.known \cup hyps.found) /\ ~Revisits(f)

Promoted(f) ==
    LET later == {i \in hyps.active .. Len(hyps.list) : hyps.list[i] = f}
    IN IF later # {}
       THEN [hyps EXCEPT !.active = CHOOSE i \in later : TRUE, !.steps = 0, !.repaired = 0]
       ELSE [hyps EXCEPT !.list = SubSeq(@, 1, hyps.active) \o <<f>>
                                    \o SubSeq(@, hyps.active + 1, Len(@)),
                         !.active = @ + 1, !.steps = 0, !.repaired = 0]

\* Too many edits of another file: it becomes the hypothesis, or evidence is
\* looked for again.
EditDrifts(e) ==
    /\ Editing /\ ~Refused(e)
    /\ Drifts(e)
    /\ tally' = [tally EXCEPT !.path = 0, !.off = 0]
    /\ \/ /\ Promotable(FileOf[e])
          /\ hyps' = Promoted(FileOf[e])
          /\ GoTo(ReplanState(Machine))
       \/ /\ ~Promotable(FileOf[e])
          /\ GoTo(EvidenceRefreshState(Machine))
          /\ UNCHANGED hyps
    /\ UNCHANGED <<mode, step, work, cache, blocked, mind, records>>

Outside(e) ==
    /\ mode.strict
    /\ hyps.found \cup cache.known # {}
    /\ FileOf[e] \notin hyps.found \cup cache.known

\* After three refusals the guard only counts.
EditOutside(e) ==
    /\ Editing /\ ~Refused(e) /\ ~Drifts(e)
    /\ Outside(e) /\ tally.locus < Limit["locus"]
    /\ tally' = [OnTrack(e) EXCEPT !.locus = @ + 1]
    /\ turn' = Wrote
    /\ UNCHANGED <<mode, place, step, work, cache, hyps, blocked, mind, records>>

ReproducerDue == mode.causal /\ causal.ctl = "mapped" /\ causal.blocks > 0

InPlace(e) ==
    Editing /\ ~Refused(e) /\ ~Drifts(e) /\ (Outside(e) => tally.locus >= Limit["locus"])

\* In causal mode an attempt at a reproducer comes before the first edit.
EditTooEarly(e) ==
    /\ InPlace(e)
    /\ ReproducerDue
    /\ causal' = [causal EXCEPT !.blocks = @ - 1]
    /\ tally' = OnTrack(e)
    /\ GoTo(IF "hypothesizing" \in States(Machine) THEN "hypothesizing" ELSE at)
    /\ UNCHANGED <<mode, step, work, cache, hyps, blocked, mind, bank, passed, report>>

SnapshotCandidate == cand' = IF mode.sandbox \/ mode.causal THEN tree ELSE cand

Fresh(f) == f \in cache.known /\ f \notin cache.modified

\* A file that was not read since it changed is shown first.
EditGated(e) ==
    LET f == FileOf[e]
    IN /\ InPlace(e) /\ ~ReproducerDue
       /\ ~Fresh(f)
       /\ SnapshotCandidate
       /\ cache' = [cache EXCEPT !.known = @ \cup {f}, !.modified = @ \ {f},
                                 !.read = {r \in @ : r.file # f} \cup {Shown(f)}]
       /\ tally' = OnTrack(e)
       /\ turn' = [Wrote EXCEPT !.gate = TRUE]
       /\ UNCHANGED <<mode, place, step, tree, snap, hyps, blocked, mind, records>>

Ready(e) == InPlace(e) /\ ~ReproducerDue /\ Fresh(FileOf[e])

\* A write that did not happen, or whose report reads like a failure.
EditFails(e) ==
    /\ Ready(e)
    /\ SnapshotCandidate
    /\ tree' \in {tree} \cup {tree \cup {e} : x \in {e} \cap Wordy}
    /\ tally' = [OnTrack(e) EXCEPT !.edit = @ + 1]
    /\ turn' = Wrote
    /\ UNCHANGED <<mode, place, step, snap, cache, hyps, blocked, mind, records>>

Triage == GoTo(FailureTriageState(Machine))

EditUnchanged(e) ==
    /\ Ready(e)
    /\ mode.causal /\ e \in tree \ Wordy
    /\ SnapshotCandidate
    /\ causal' = Record(causal, "structural_failure")
    /\ blocked' = blocked \cup {e}
    /\ tally' = OnTrack(e)
    /\ Triage
    /\ UNCHANGED <<mode, step, tree, snap, cache, hyps, mind, bank, passed, report>>

\* causal_post_edit_guard_failure
GuardFails(t) ==
    Oversized(Differs(t, snap)) \/ TouchesTests(Differs(t, snap)) \/ Broken(t)

EditRejected(e) ==
    /\ Ready(e)
    /\ mode.causal /\ e \notin tree \cup Wordy
    /\ GuardFails(tree \cup {e})
    /\ cand' = tree
    /\ causal' = Record(causal, "structural_failure")
    /\ blocked' = blocked \cup {e}
    /\ cache' = Reread(cache)
    /\ tally' = [OnTrack(e) EXCEPT !.same = 0, !.diag = FALSE, !.edit = 0]
    /\ Triage
    /\ UNCHANGED <<mode, step, tree, snap, hyps, mind, bank, passed, report>>

EditLands(e) ==
    LET t == tree \cup {e}
    IN /\ Ready(e)
       /\ e \notin Wordy
       /\ mode.causal => e \notin tree /\ ~GuardFails(t)
       /\ SnapshotCandidate
       /\ tree' = t
       /\ causal' = IF mode.causal
                    THEN LET c == StructuralCheckpoint(PatchPrepared(causal), t)
                         IN [c EXCEPT !.edits = @ + 1]
                    ELSE causal
       /\ cache' = Landed(cache, FileOf[e])
       /\ tally' = OnTrack(e)
       /\ turn' = [Wrote EXCEPT !.edit = e]
       /\ pc' = "edited"
       /\ UNCHANGED <<mode, at, inState, step, snap, hyps, blocked, mind, bank, passed, report>>

=============================================================================
