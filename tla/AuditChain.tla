----------------------------- MODULE AuditChain -----------------------------
(***************************************************************************)
(* The hash-chained audit trail: log_event and verify_chain of             *)
(* backend/app/services/audit/logger.py.                                   *)
(*                                                                         *)
(* A record is named by its record_hash; hashes are the numbers 1, 2, ...  *)
(* in the order in which they were computed and GENESIS is 0.  SHA-256 is  *)
(* an injective function without a key: history[h] holds the fields hash h *)
(* was computed from, by log_event or by whoever rewrites a record, so     *)
(* recomputing the hash of a stored record gives h exactly when its fields *)
(* still are history[h].                                                   *)
(*                                                                         *)
(* log_event is not atomic: the query for the end of the chain, the clock  *)
(* reading and the insertion are three steps, and the callers (Writers)    *)
(* are request handlers running in two processes and their thread pools.   *)
(***************************************************************************)
EXTENDS Naturals, Sequences, FiniteSets

CONSTANTS
  Writers,    \* the request handlers that call log_event
  Window,     \* how many of the latest records log_event looks at (20)
  MaxBurst,   \* bound: records that may carry one and the same timestamp
  MaxEvents,  \* bound: hashes computed
  MaxTime,    \* bound: clock ticks
  Tampers,    \* retroactive changes made behind the application's back
  MaxDamaged  \* bound: records changed or deleted that way

ASSUME BoundsAssumption ==
  /\ Window \in Nat \ {0}
  /\ MaxBurst \in Nat
  /\ MaxBurst <= Window
  /\ MaxEvents \in Nat
  /\ MaxTime \in Nat

ASSUME TampersAssumption ==
  /\ Tampers \subseteq {"edit", "note", "delete", "rewrite"}
  /\ MaxDamaged \in Nat

VARIABLES
  audit,    \* the audit_events collection: record hash -> stored fields
  history,  \* what each hash was computed from, and what its query had seen
  now,      \* datetime.utcnow(), which never runs backwards here
  pc,       \* where each writer is in log_event
  draft     \* the local variables of each writer's log_event

vars == <<audit, history, now, pc, draft>>

GENESIS == 0
Hash == 1..MaxEvents
Time == 0..MaxTime

\* The fields a hash covers (body: actor, action, resource, details) and one
\* it does not (note: ip_address, user_agent, device_fingerprint).
Fields(event) == [prev |-> event.prev, ts |-> event.ts, body |-> event.body]
Event == [prev : Hash \cup {GENESIS}, ts : Time,
          body : {"written", "edited"}, note : {"written", "edited"}]
Draft == [prev : Hash \cup {GENESIS}, ts : Time, saw : SUBSET Hash]
NoDraft == [prev |-> GENESIS, ts |-> 0, saw |-> {}]

Stored == DOMAIN audit
Computed == DOMAIN history

-----------------------------------------------------------------------------
(* log_event *)

\* (Mutant: created_at in ascending order.)
IsOldest(W) ==
  /\ Cardinality(W) <= Window
  /\ W = Stored \/ Cardinality(W) = Window
  /\ \A h \in W, g \in Stored \ W : audit[g].ts >= audit[h].ts

\* A result of created_at desc, limit Window: ties are broken arbitrarily.
IsLatest(W) ==
  /\ Cardinality(W) <= Window
  /\ W = Stored \/ Cardinality(W) = Window
  /\ \A h \in W, g \in Stored \ W : audit[g].ts <= audit[h].ts

Newest(S) == {h \in S : \A g \in S : audit[g].ts <= audit[h].ts}

\* Records of the window no record of the window points back to.
Unreferenced(W) == {h \in W : \A g \in W : audit[g].prev # h}

\* (Mutant: the newest record is the end, referenced or not.)
NewestIsEnd(W) == IF W = {} THEN {GENESIS} ELSE Newest(W)

\* The candidates for the end of the chain: the first unreferenced record in
\* descending order, else the first record, else none at all.
ChainEnds(W) ==
  IF W = {} THEN {GENESIS}
  ELSE IF Unreferenced(W) # {} THEN Newest(Unreferenced(W))
  ELSE Newest(W)

Query(w) ==
  /\ pc[w] = "idle"
  /\ \E W \in SUBSET Stored :
       /\ IsLatest(W)
       /\ \E h \in ChainEnds(W) :
            draft' = [draft EXCEPT ![w] = [prev |-> h, ts |-> 0, saw |-> Stored]]
  /\ pc' = [pc EXCEPT ![w] = "queried"]
  /\ UNCHANGED <<audit, history, now>>

\* (Mutant: local time, ahead of UTC.)
StampLocalTime(w) ==
  /\ pc[w] = "queried"
  /\ draft' = [draft EXCEPT ![w].ts = now + 1]
  /\ pc' = [pc EXCEPT ![w] = "stamped"]
  /\ UNCHANGED <<audit, history, now>>

Stamp(w) ==
  /\ pc[w] = "queried"
  /\ draft' = [draft EXCEPT ![w].ts = now]
  /\ pc' = [pc EXCEPT ![w] = "stamped"]
  /\ UNCHANGED <<audit, history, now>>

\* db.add and db.flush; MaxBurst and MaxEvents bound the model here.
Insert(w) ==
  LET h == Len(history) + 1
      event == [prev |-> draft[w].prev, ts |-> draft[w].ts,
                body |-> "written", note |-> "written"]
  IN  /\ pc[w] = "stamped"
      /\ h <= MaxEvents
      /\ Cardinality({g \in Stored : audit[g].ts = draft[w].ts}) < MaxBurst
      /\ audit' = [g \in Stored \cup {h} |-> IF g = h THEN event ELSE audit[g]]
      /\ history' = Append(history, draft[w])
      /\ pc' = [pc EXCEPT ![w] = "idle"]
      /\ draft' = [draft EXCEPT ![w] = NoDraft]
      /\ UNCHANGED now

Tick ==
  /\ now < MaxTime
  /\ now' = now + 1
  /\ UNCHANGED <<audit, history, pc, draft>>

-----------------------------------------------------------------------------
(* Changes made to the stored records behind log_event's back: a field the   *)
(* hash covers, a field it does not cover, a record with its hash, a whole   *)
(* record.                                                                   *)

\* What was hashed for h.
Sealed(h) == [prev |-> history[h].prev, ts |-> history[h].ts, body |-> "written"]

\* (Mutant: a hash that does not cover the timestamp.)
UnalteredButTime(h) ==
  [Fields(audit[h]) EXCEPT !.ts = 0] = [Sealed(h) EXCEPT !.ts = 0]

Unaltered(h) == Fields(audit[h]) = Sealed(h)
Pristine(h) == Unaltered(h) /\ audit[h].note = "written"
Damaged == {h \in Computed : h \notin Stored \/ ~Pristine(h)}
CanDamage(h) == h \in Damaged \/ Cardinality(Damaged) < MaxDamaged

Edit(h) ==
  /\ "edit" \in Tampers
  /\ Unaltered(h) /\ CanDamage(h)
  /\ \/ audit' = [audit EXCEPT ![h].body = "edited"]
     \/ \E t \in Time \ {audit[h].ts} : audit' = [audit EXCEPT ![h].ts = t]
     \/ \E p \in (Computed \cup {GENESIS}) \ {audit[h].prev} :
          audit' = [audit EXCEPT ![h].prev = p]
  /\ UNCHANGED <<history, now, pc, draft>>

EditNote(h) ==
  /\ "note" \in Tampers
  /\ audit[h].note = "written" /\ CanDamage(h)
  /\ audit' = [audit EXCEPT ![h].note = "edited"]
  /\ UNCHANGED <<history, now, pc, draft>>

Delete(h) ==
  /\ "delete" \in Tampers
  /\ CanDamage(h)
  /\ audit' = [g \in Stored \ {h} |-> audit[g]]
  /\ UNCHANGED <<history, now, pc, draft>>

\* The covered fields of h become what one likes, and record_hash the hash of
\* that, which anybody can compute.
Rewrite(h) ==
  LET g == Len(history) + 1
  IN  /\ "rewrite" \in Tampers
      /\ CanDamage(h)
      /\ g <= MaxEvents
      /\ \E p \in Computed \cup {GENESIS}, t \in Time :
           /\ audit' = [k \in (Stored \ {h}) \cup {g} |->
                          IF k = g THEN [prev |-> p, ts |-> t, body |-> "written",
                                         note |-> audit[h].note]
                          ELSE audit[k]]
           /\ history' = Append(history, [prev |-> p, ts |-> t, saw |-> {}])
      /\ UNCHANGED <<now, pc, draft>>

-----------------------------------------------------------------------------
Init ==
  /\ audit = [h \in {} |-> GENESIS]
  /\ history = <<>>
  /\ now = 0
  /\ pc = [w \in Writers |-> "idle"]
  /\ draft = [w \in Writers |-> NoDraft]

Next ==
  \/ \E w \in Writers : Query(w) \/ Stamp(w) \/ Insert(w)
  \/ Tick
  \/ \E h \in Stored : Edit(h) \/ EditNote(h) \/ Delete(h) \/ Rewrite(h)

Spec == Init /\ [][Next]_vars

-----------------------------------------------------------------------------
(* verify_chain *)

Forked == \E g, h \in Stored : g # h /\ audit[g].prev = audit[h].prev

\* (Mutant: the walk starts at a record of its own, not at GENESIS.)
ClosedWithoutRoot(S) == \A h \in Stored : audit[h].prev \in S => h \in S

\* A set of records a walk from GENESIS along the links cannot leave.
Closed(S) ==
  \A h \in Stored : (audit[h].prev = GENESIS \/ audit[h].prev \in S) => h \in S

\* The records the walk never reaches.
Orphans == {h \in Stored : \E S \in SUBSET Stored : Closed(S) /\ h \notin S}

Verdict ==
  IF Stored = {} THEN "intact"
  ELSE IF Forked THEN "fork"
  ELSE IF Orphans # {} THEN "orphan"
  ELSE IF \E h \in Stored : ~Unaltered(h) THEN "broken"
  ELSE "intact"

-----------------------------------------------------------------------------
(* Properties *)

Untouched ==
  /\ Stored = Computed
  /\ \A h \in Stored : Pristine(h)

\* Type invariant of the collection, the history and the writers' locals.
TypeOK ==
  /\ history \in Seq(Draft)
  /\ Len(history) <= MaxEvents
  /\ Stored \subseteq Computed
  /\ audit \in [Stored -> Event]
  /\ now \in Time
  /\ pc \in [Writers -> {"idle", "queried", "stamped"}]
  /\ draft \in [Writers -> Draft]

\* Two records share a predecessor only if their log_event calls overlapped:
\* neither call's query could see the record of the other.  In particular no
\* call that starts after another one has returned ever forks the chain.
ForksOverlap ==
  Untouched =>
    \A g, h \in Stored :
      g # h /\ audit[g].prev = audit[h].prev
        => g \notin history[h].saw /\ h \notin history[g].saw

\* However the calls interleave, every record hangs on the chain that starts
\* at GENESIS: without tampering verify_chain never reports an orphan.
NoOrphans == Untouched => Orphans = {}

\* verify_chain holds of everything log_event wrote.  (True only when the
\* calls do not overlap: one writer.)
ChainIntact == Untouched => Verdict = "intact"

\* What an intact verdict is worth: every stored record carries the covered
\* fields its record_hash was computed from; the records are one line from
\* GENESIS with nothing missing before any of them; and each was hashed after
\* the record it follows.  So whoever rewrites a record together with its hash
\* has to rewrite all records after it as well; with the newest ones nothing
\* is left to notice it (see TamperingDetected).
IntactMeansPrefix ==
  Verdict = "intact" =>
    /\ \A h \in Stored :
         /\ Fields(audit[h]) = Sealed(h)
         /\ history[h].prev \in Stored \cup {GENESIS}
         /\ audit[h].prev < h
    /\ \A g, h \in Stored : history[g].prev = history[h].prev => g = h

\* logger.py, lines 4-5 ("any retroactive edit or deletion breaks the chain")
\* and models/audit.py, lines 10-11 ("any row mutation breaks the chain"): an
\* intact verdict means that nothing was changed.  (False: the newest records
\* can be deleted, or rewritten with their hashes, and some fields are not
\* hashed.)
TamperingDetected == Verdict = "intact" => Untouched

-----------------------------------------------------------------------------
(* The trail as a log *)

\* The records verify_chain visits after p, in the order of its walk, up to the
\* first fork.
WalkFrom[p \in Stored \cup {GENESIS}] ==
  LET next == {h \in Stored : audit[h].prev = p}
  IN  IF Cardinality(next) # 1 THEN <<>>
      ELSE LET h == CHOOSE h \in next : TRUE
           IN  <<[id |-> h, ts |-> audit[h].ts]>> \o WalkFrom[h]

Walk == WalkFrom[GENESIS]

Log == INSTANCE AuditLog WITH Record <- Hash, Stamps <- Time, log <- Walk

\* The walk from GENESIS only ever grows at its end, one record at a time and
\* in timestamp order: with one writer, and without tampering, the audit trail
\* implements AuditLog.
ImplementsLog == Log!Spec
=============================================================================
