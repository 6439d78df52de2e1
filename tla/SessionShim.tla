---------------------------- MODULE SessionShim -----------------------------
(***************************************************************************)
(* Handlers of concurrent request handlers over one document store:        *)
(* QueryShim.first and SessionShim.{add, commit, refresh, delete} of       *)
(* backend/app/db/session.py.                                              *)
(*                                                                         *)
(* commit() first tries a MongoDB transaction.  That succeeds only on a    *)
(* replica set; otherwise, and after any error, it writes the documents    *)
(* one by one, each as a whole.  A handler that ends (close() forgets what *)
(* was not committed) and a process that dies between two writes are       *)
(* sessions that take no further step.                                     *)
(***************************************************************************)
EXTENDS Session, FiniteSetsExt, TLC

CONSTANTS
  Handlers,     \* the request handlers, one session each
  Docs,         \* document ids
  Fields,       \* the attributes of a document
  Values,       \* what an attribute can hold
  Replicated,   \* whether MongoDB runs as a replica set
  MaxObjects,   \* bound: objects the sessions hold together
  MaxVersion    \* bound: writes of one document

ASSUME ReplicatedAssumption == Replicated \in BOOLEAN
ASSUME ValuesAssumption == Values # {}
ASSUME BoundsAssumption == MaxVersion \in Nat

VARIABLES
  store,     \* the documents: id -> attributes, or Absent
  session,   \* the session of each handler
  writing,   \* the objects a commit in its fallback still has to write
  version,   \* history: how often each document was written or deleted
  touched,   \* history: the (object, attribute) pairs each handler assigned
  fetched    \* history: the version of its document each object last matched

vars == <<store, session, writing, version, touched, fetched>>

Absent == <<>>
Attributes == [Fields -> Values]
Blank == [f \in Fields |-> CHOOSE v \in Values : TRUE]

Running(s) == writing[s] = <<>>
Objects(s) == DOMAIN session[s].objs
Room == FoldSet(LAMBDA s, sum : sum + Newest(session[s]), 0, Handlers) < MaxObjects

-----------------------------------------------------------------------------
\* (Mutant: defaults win over the stored attributes.)
QueryDefaults(s, d) ==
  /\ Running(s) /\ Room
  /\ store[d] # Absent
  /\ session' = [session EXCEPT ![s] = Fetch(@, d, Blank)]
  /\ fetched' = [fetched EXCEPT ![s] = Append(@, version[d])]
  /\ UNCHANGED <<store, writing, version, touched>>

Query(s, d) ==
  /\ Running(s) /\ Room
  /\ store[d] # Absent
  /\ session' = [session EXCEPT ![s] = Fetch(@, d, store[d])]
  /\ fetched' = [fetched EXCEPT ![s] = Append(@, version[d])]
  /\ UNCHANGED <<store, writing, version, touched>>

\* (Bound: a handler assigns an attribute of an object once, a new value.)
SetAttribute(s, n, f, v) ==
  /\ Running(s)
  /\ <<n, f>> \notin touched[s] /\ ValOf(session[s], n)[f] # v
  /\ session' = [session EXCEPT ![s] = Assign(@, n, [ValOf(@, n) EXCEPT ![f] = v])]
  /\ touched' = [touched EXCEPT ![s] = @ \cup {<<n, f>>}]
  /\ UNCHANGED <<store, writing, version, fetched>>

\* A constructor call and add(): ids are fresh UUIDs, so no document and no
\* object of any session has d yet.  (SetAttribute gives it other values.)
Create(s, d) ==
  /\ Running(s) /\ Room
  /\ version[d] = 0 /\ store[d] = Absent
  /\ \A r \in Handlers : \A n \in Objects(r) : IdOf(session[r], n) # d
  /\ session' = [session EXCEPT ![s] = AddNew(@, d, Blank)]
  /\ fetched' = [fetched EXCEPT ![s] = Append(@, 0)]
  /\ touched' = [touched EXCEPT ![s] = @ \cup {<<Newest(session[s]) + 1, f>> : f \in Fields}]
  /\ UNCHANGED <<store, writing, version>>

Add(s, n) ==
  /\ Running(s)
  /\ n \notin Range(session[s].pending)
  /\ session' = [session EXCEPT ![s] = AddObject(@, n)]
  /\ UNCHANGED <<store, writing, version, touched, fetched>>

\* The documents that storing a list of objects writes, and the object that
\* stays of each: the last one.
Written(s, list) == {IdOf(session[s], list[i]) : i \in DOMAIN list}
Final(s, list, d) ==
  list[Max({i \in DOMAIN list : IdOf(session[s], list[i]) = d})]

\* replace_one(..., upsert=True) of the whole documents of a list of objects.
Replaced(s, list) ==
  [d \in Docs |-> IF d \in Written(s, list) THEN ValOf(session[s], Final(s, list, d))
                  ELSE store[d]]

\* What a commit that stores a list of objects changes in the history.
Recorded(s, list) ==
  /\ version' = [d \in Docs |-> IF d \in Written(s, list) THEN version[d] + 1 ELSE version[d]]
  /\ \A d \in Docs : version'[d] <= MaxVersion
  /\ fetched' = [fetched EXCEPT ![s] =
                   [n \in DOMAIN @ |->
                      LET d == IdOf(session[s], n)
                      IN  IF d \in Written(s, list) /\ n = Final(s, list, d)
                          THEN version'[d] ELSE @[n]]]

CommitTransaction(s) ==
  LET list == Writes(session[s])
  IN  /\ Replicated
      /\ Running(s) /\ list # <<>>
      /\ store' = Replaced(s, list)
      /\ Recorded(s, list)
      /\ session' = [session EXCEPT ![s] = Committed(@)]
      /\ UNCHANGED <<writing, touched>>

\* The transaction is refused, or fails: nothing of it is stored.
CommitFallback(s) ==
  /\ Running(s) /\ Writes(session[s]) # <<>>
  /\ writing' = [writing EXCEPT ![s] = Writes(session[s])]
  /\ UNCHANGED <<store, session, version, touched, fetched>>

WriteNext(s) ==
  LET next == <<Head(writing[s])>>
  IN  /\ ~Running(s)
      /\ store' = Replaced(s, next)
      /\ Recorded(s, next)
      /\ writing' = [writing EXCEPT ![s] = Tail(@)]
      /\ session' = IF Len(writing[s]) = 1
                    THEN [session EXCEPT ![s] = Committed(@)] ELSE session
      /\ UNCHANGED touched

\* (Mutant: without the check that the document is still there.)
RefreshAnyway(s, n) ==
  /\ Running(s)
  /\ session[s] = Committed(session[s])
  /\ session' = [session EXCEPT ![s] = Assign(@, n, store[IdOf(@, n)])]
  /\ touched' = [touched EXCEPT ![s] = @ \cup {<<n, f>> : f \in Fields}]
  /\ UNCHANGED <<store, writing, version, fetched>>

\* refresh() assigns every attribute from the store, and tracks nothing.
\* Every handler that calls it has just committed.
Refresh(s, n) ==
  LET d == IdOf(session[s], n)
  IN  /\ Running(s)
      /\ session[s] = Committed(session[s])
      /\ store[d] # Absent
      /\ session' = [session EXCEPT ![s] = Assign(@, n, store[d])]
      /\ touched' = [touched EXCEPT ![s] = @ \cup {<<n, f>> : f \in Fields}]
      /\ UNCHANGED <<store, writing, version, fetched>>

\* delete() removes the document at once and leaves the session as it is.
DeleteNow(s, n) ==
  LET d == IdOf(session[s], n)
  IN  /\ Running(s)
      /\ store[d] # Absent /\ version[d] < MaxVersion
      /\ store' = [store EXCEPT ![d] = Absent]
      /\ version' = [version EXCEPT ![d] = @ + 1]
      /\ UNCHANGED <<session, writing, touched, fetched>>

-----------------------------------------------------------------------------
Init ==
  /\ store \in [Docs -> {Absent, Blank}]
  /\ session = [s \in Handlers |-> NoSession]
  /\ writing = [s \in Handlers |-> <<>>]
  /\ version = [d \in Docs |-> 0]
  /\ touched = [s \in Handlers |-> {}]
  /\ fetched = [s \in Handlers |-> <<>>]

Next ==
  \E s \in Handlers :
    \/ \E d \in Docs : Query(s, d) \/ Create(s, d)
    \/ \E n \in Objects(s) :
         \/ \E f \in Fields, v \in Values : SetAttribute(s, n, f, v)
         \/ Add(s, n)
         \/ Refresh(s, n)
         \/ DeleteNow(s, n)
    \/ CommitTransaction(s)
    \/ CommitFallback(s)
    \/ WriteNext(s)

Spec == Init /\ [][Next]_vars

-----------------------------------------------------------------------------
(* Properties *)

\* Type invariant; in particular a commit only writes objects it holds.
TypeOK ==
  /\ store \in [Docs -> Attributes \cup {Absent}]
  /\ version \in [Docs -> 0..MaxVersion]
  /\ \A s \in Handlers :
       /\ \A n \in Objects(s) : session[s].objs[n] \in [id : Docs, val : Attributes]
       /\ Range(session[s].pending) \cup Range(writing[s]) \subseteq Objects(s)
       /\ \A i \in DOMAIN session[s].tracked : session[s].tracked[i].obj \in Objects(s)
       /\ touched[s] \subseteq Objects(s) \X Fields
       /\ DOMAIN fetched[s] = Objects(s)

\* A commit of session s is storing documents.
Stores(s) == CommitTransaction(s) \/ WriteNext(s)

\* test_dirty_tracking_and_audit_forks.py, line 75: a session that fetched a
\* document and did not modify it never overwrites it, however stale its copy.
UnmodifiedNeverWritten ==
  [][\A s \in Handlers, d \in Docs :
       store'[d] # store[d] /\ Stores(s)
         => \E n \in Objects(s) :
              /\ IdOf(session[s], n) = d
              /\ \/ n \in Range(session[s].pending)
                 \/ \E f \in Fields : <<n, f>> \in touched[s]]_vars

\* A commit may undo another handler's change of an attribute it never
\* assigned (documents are written whole), but only when that change was
\* made after this session had read the document: between sessions that do
\* not overlap no update is lost.
LostOnlyByOverlap ==
  [][\A s \in Handlers, d \in Docs :
       /\ store[d] # Absent /\ store'[d] # store[d]
       /\ Stores(s)
       /\ \A n \in Objects(s) : IdOf(session[s], n) = d => fetched[s][n] = version[d]
       => \A f \in Fields :
            store'[d][f] # store[d][f]
              => \E n \in Objects(s) :
                   IdOf(session[s], n) = d /\ <<n, f>> \in touched[s]]_vars
=============================================================================
