------------------------------ MODULE Request -------------------------------
(***************************************************************************)
(* A request handler between two of its steps: where it is (pc), its       *)
(* session, and, while SessionShim.commit stores documents one after the   *)
(* other, the objects still to be stored and where to go on after that.    *)
(* docker-compose.yml runs one standalone mongod, so every commit ends in  *)
(* that fallback (SessionShim models both ways).                           *)
(***************************************************************************)
EXTENDS Session

Idle == [op |-> "none", pc |-> "idle", then |-> "idle",
         session |-> NoSession, writing |-> <<>>]

Start(op, session, pc) ==
  [Idle EXCEPT !.op = op, !.session = session, !.pc = pc]

\* flush() or commit(), then on to pc; nothing happens if there is nothing to
\* write.
Flush(r, pc) ==
  IF Writes(r.session) = <<>> THEN [r EXCEPT !.pc = pc]
  ELSE [r EXCEPT !.pc = "flush", !.then = pc, !.writing = Writes(r.session)]

\* (Mutant: the record is stored before what is pending already.)
LogEventFirst(r, event, pc) ==
  LET s == AddNew(r.session, "audit", event)
  IN  Flush([r EXCEPT !.session = [s EXCEPT !.pending = <<Newest(s)>> \o r.session.pending]],
            pc)

\* log_event: its record joins the pending objects and everything is flushed.
\* (The audit records it reads are tracked and never changed.)
LogEvent(r, event, pc) ==
  Flush([r EXCEPT !.session = AddNew(@, "audit", event)], pc)

\* The object that is stored next, and the request after that.
NextObject(r) == r.session.objs[Head(r.writing)]
AfterWrite(r) ==
  IF Len(r.writing) > 1 THEN [r EXCEPT !.writing = Tail(@)]
  ELSE [r EXCEPT !.writing = <<>>, !.pc = r.then, !.session = Committed(@)]
=============================================================================
