-------------------------- MODULE ReceiptParticipation -------------------------
(***************************************************************************)
(* The participation observer of one Cohort Run                            *)
(* (HostRunReceiptParticipationObserver of src/src/run-receipt.ts): from   *)
(* the Host's lifecycle events it tells which children take part, binds    *)
(* them to the stages of the plan, and has the run publish every change    *)
(* (src/src/execution.ts).                                                 *)
(*                                                                         *)
(* External, from how the observer and its tests use the Host: a child has *)
(* a Session, a parent, and runs that start and end under the parent's     *)
(* agent; a local child has an agent in the registry; start() of a child   *)
(* of the plan returns some time after its run started; the listing names  *)
(* the Sessions below the parent, parents first.                           *)
(***************************************************************************)
EXTENDS ReceiptFeed

CONSTANTS
  Session, Run,   \* the run that is observed
  Children,       \* child Sessions, as numbers
  ParentOf,
  Remote,         \* the children that are not local
  Calls,          \* subagent runs: <<child, n>>
  Scenarios,      \* the sets of runs that one behaviour may have
  MaxDisposed,    \* agents that are disposed
  Bindings        \* children of the plan: [stage, index]

(* What a run of a child is recorded with.                                 *)
LifecycleRecord ==
  [root : Calls \cup {None}, depth : Nat, binding : DOMAIN Bindings \cup {None}, ended : BOOLEAN]

Participant ==
  [child : Children, parent : Children \cup {Parent}, depth : Nat, stage : Stages, index : Nat,
   run : Calls \cup {None}, source : {"session", "remote"}, state : {"running", "ended"},
   stop : {"stopped", None}]

LiveRunReceipt ==
  [run : Runs, outcome : Outcomes, stages : [Stages -> Statuses],
   participation : [rows : SUBSET Participant, unavailable : Nat, truncated : Nat]]

(* Every child is below the Session of the run; the plan binds a child to  *)
(* a place of a stage.                                                     *)
ASSUME TreeAssumption ==
  /\ Children \subseteq Nat /\ Parent \notin Children
  /\ ParentOf \in [Children -> Children \cup {Parent}]
  /\ \A S \in SUBSET Children : S # {} => \E c \in S : ParentOf[c] \notin S
  /\ IsFiniteSet(Calls) /\ Calls \subseteq Children \X Nat
  /\ DOMAIN Bindings \subseteq Children
  /\ \A s \in Stages : /\ StagesOf[s].order \in Nat /\ StagesOf[s].expectedChildren \in Nat
                         /\ StagesOf[s].after \subseteq Stages
  /\ \A c \in DOMAIN Bindings : /\ Bindings[c].stage \in Stages
                                 /\ Bindings[c].index \in Nat
                                 /\ Bindings[c].index < StagesOf[Bindings[c].stage].expectedChildren

(* One run is within the caps of its Session; None is nothing that is      *)
(* recorded.                                                               *)
ASSUME CapsAssumption ==
  /\ Session \in Sessions /\ Run \in Runs
  /\ Seats \in Nat /\ ActiveCap \in Nat \ {0}
  /\ ModelWeight \in Nat /\ Seats < ModelWeight
  /\ None \notin Calls /\ None \notin Children
  /\ None \notin LifecycleRecord /\ None \notin LiveRunReceipt
  /\ None \notin {"participant-cap", "invalid-references", "invalid-transition",
                   "active-receipt-cap", "session-byte-cap", "stopped"}

VARIABLES
  calls,          \* "absent", "running", "ended", or "never" in this behaviour
  agents,         \* the registry: children with a live agent
  returned,       \* the children of the plan whose start() returned
  records,        \* what the observer recorded of each run, or None
  bound,          \* the runs it lists
  cold,           \* the rows it read from Sessions
  known,          \* the agents it knows
  marks,          \* what it cannot observe
  admitted,       \* the runs that have a seat
  phase,          \* "watching", "listing", "reading" or "finished"
  ending,         \* the outcome the run finishes with
  entries,        \* the descendants still to be read
  roots,          \* rootByChild
  gone            \* history: rows that were left out of an observation

observerVars == <<calls, agents, returned, records, bound, cold, known, marks,
                  admitted, phase, ending, entries, roots, gone>>
hostVars == <<instance, started, life, lives, wire, others, disturbances>>

ObserverInit ==
  /\ \E S \in Scenarios : calls = [c \in Calls |-> IF c \in S THEN "absent" ELSE "never"]
  /\ agents = {} /\ returned = {}
  /\ records = [c \in Calls |-> None] /\ bound = {} /\ cold = {} /\ known = {}
  /\ marks = {} /\ admitted = {} /\ gone = {}
  /\ phase = "watching" /\ ending = None /\ entries = <<>>
  /\ roots = [c \in Children |-> None]

Child(call) == call[1]
Direct(child) == ParentOf[child] = Parent
Recorded(rs) == {c \in Calls : rs[c] # None}

Begun == {Child(c) : c \in {c \in Calls : calls[c] \in {"running", "ended"}}}

Record(root, depth) == [root |-> root, depth |-> depth, binding |-> None, ended |-> FALSE]

------------------------------------------------------------------------------
(* The records                                                              *)

DirectRecord(rs, child) ==
  LET found == {c \in Recorded(rs) : Child(c) = child /\ Direct(child) /\ rs[c].binding # None}
  IN IF found = {} THEN None ELSE CHOOSE c \in found : TRUE

UnboundRootRecord(rs, child) ==
  LET found == {c \in Recorded(rs) : Child(c) = child /\ Direct(child) /\ rs[c].binding = None}
  IN IF Cardinality(found) = 1 THEN CHOOSE c \in found : TRUE ELSE None

(* The bound child of the plan above a child, as far as the agents between *)
(* them are known.                                                         *)
RootRecord(rs, child) ==
  LET up[c \in Children \cup {Parent}] ==
        IF c = Parent THEN None
        ELSE IF DirectRecord(rs, c) # None THEN DirectRecord(rs, c)
        ELSE IF c \in known THEN up[ParentOf[c]] ELSE None
  IN IF DirectRecord(rs, child) # None THEN DirectRecord(rs, child) ELSE up[ParentOf[child]]

(* bindNested: what a record becomes under the record above it.            *)
BoundUnder(record, above) ==
  IF above.binding = None THEN record
  ELSE [record EXCEPT !.binding = above.binding, !.depth = above.depth + 1]

(* attachPendingNested: records without a root below a run get one, and    *)
(* the records below those that are local.                                 *)
AttachPendingNested(rs, root) ==
  LET attached[c \in Calls] ==
        IF rs[c] = None THEN None
        ELSE IF rs[c].root # None \/ Direct(Child(c)) THEN rs[c]
        ELSE IF ParentOf[Child(c)] = Child(root)
             THEN [BoundUnder(rs[c], rs[root]) EXCEPT !.root = root]
        ELSE LET above == {d \in Recorded(rs) : /\ Child(d) = ParentOf[Child(c)]
                                                /\ Child(d) \notin Remote
                                                /\ rs[d].root = None /\ attached[d].root # None}
             IN IF above = {} THEN rs[c]
                ELSE LET d == CHOOSE d \in above : TRUE
                     IN [BoundUnder(rs[c], attached[d]) EXCEPT !.root = d]
  IN attached

(* bindPendingNested: also the records that have this root already.        *)
BindPendingNested(rs, root) ==
  LET attached == AttachPendingNested(rs, root)
  IN [c \in Calls |->
        IF attached[c] # None /\ attached[c].root = root
        THEN BoundUnder(attached[c], attached[root]) ELSE attached[c]]

(* What cannot be observed, by kind, child and run.                        *)
Mark(kind, child, n) == [kind |-> kind, child |-> child, n |-> n]

(* The records that are bound and listed: a nested remote one is not.      *)
Listed(rs) == {c \in Recorded(rs) : rs[c].binding # None
                                      /\ (Direct(Child(c)) \/ Child(c) \notin Remote)}
RemoteMarks(rs) == {Mark("nested-remote", Child(c), c[2]) : c \in
                      {c \in Recorded(rs) : rs[c].binding # None} \ Listed(rs)}

------------------------------------------------------------------------------
(* An observation                                                           *)

LiveRow(rs, call) ==
  LET child == Child(call) binding == Bindings[rs[call].binding]
  IN [child |-> child, parent |-> ParentOf[child], depth |-> rs[call].depth,
      stage |-> binding.stage, index |-> binding.index, run |-> call,
      source |-> IF child \in Remote THEN "remote" ELSE "session",
      state |-> IF rs[call].ended THEN "ended" ELSE "running",
      stop |-> IF rs[call].ended THEN "stopped" ELSE None]

(* participant: a local child that has not ended needs its agent.          *)
Observable(rs, kn, call) ==
  rs[call].ended \/ Child(call) \in Remote \/ Child(call) \in kn \cap agents'

(* The order of the rows: stage, index, depth, child, and the runs of one  *)
(* child in turn.                                                          *)
Key(row) == <<StagesOf[row.stage].order, row.index, row.depth, row.child,
              IF row.run = None THEN 0 ELSE row.run[2]>>

Precedes(q, r) ==
  LET k == Key(q) m == Key(r)
  IN \E i \in 1..5 : k[i] < m[i] /\ \A j \in 1..(i - 1) : k[j] = m[j]

Leading(rows, n) == {r \in rows : Cardinality({q \in rows : Precedes(q, r)}) < n}

(* Mutant of Admitted: the first rows of each observation have the seats.  *)
AdmittedAnew(live) == {r.run : r \in Leading(live, Seats)}

(* A run keeps the seat it has; the free ones are given in order.          *)
Admitted(live) ==
  admitted \cup {r.run : r \in Leading({r \in live : r.run \notin admitted},
                                     IF Cardinality(admitted) < Seats
                                     THEN Seats - Cardinality(admitted) ELSE 0)}

Observation(live, unobserved, coldRows, seated, mk) ==
  LET free == IF Cardinality(seated) < Seats THEN Seats - Cardinality(seated) ELSE 0
      kept == {r \in live : r.run \in seated} \cup Leading(coldRows, free)
  IN [rows |-> kept,
      unavailable |-> Cardinality(mk) + unobserved,
      truncated |-> Cardinality(live) + Cardinality(coldRows) - Cardinality(kept)]

(* emit: the run takes the observation over, and its receipt is published. *)
Emission(rs, bd, kn, coldRows, mk) ==
  LET seen == {c \in bd : Observable(rs, kn, c)}
      live == {LiveRow(rs, c) : c \in seen}
      seated == Admitted(live)
      observation == Observation(live, Cardinality(bd \ seen), coldRows, seated, mk)
      unseated == (runs[Session][Run].participation.rows \cap coldRows) \ observation.rows
  IN [receipt |-> setRunReceiptObservation(runs[Session][Run], observation),
      seated |-> seated,
      lost |-> (bd \ seen) \cup {<<r.child, 0>> : r \in unseated}]

(* What the event makes of the receipt after that is published too.  Nobody*)
(* follows the feed here, and its revisions are not counted.               *)
Emit(emission, receipt) ==
  /\ admitted' = emission.seated
  /\ gone' = gone \cup emission.lost
  /\ runs' = [runs EXCEPT ![Session][Run] = receipt]
  /\ feeds' = [feeds EXCEPT ![Session] =
                 [Published(Published(@, emission.receipt), receipt) EXCEPT !.revision = 0]]
  /\ UNCHANGED <<hostVars, follower>>

(* The observer's state after an event, and what it emits of it.           *)
Observe(rs, kn, mk) ==
  /\ records' = rs /\ bound' = bound \cup Listed(records') /\ known' = kn
  /\ marks' = mk \cup RemoteMarks(records')
  /\ LET emission == Emission(records', bound', known', cold, marks')
     IN Emit(emission, emission.receipt)
  /\ UNCHANGED <<cold, phase, ending, entries, roots>>

(* An event that emits nothing.                                            *)
Note(rs, kn) ==
  /\ records' = rs /\ known' = kn
  /\ UNCHANGED <<feedVars, bound, cold, marks, admitted, phase, ending, entries, roots, gone>>

------------------------------------------------------------------------------
(* Host events                                                              *)

(* The observer hears nothing of what starts or ends after it stopped      *)
(* listening: children that start during the listing stand for the later   *)
(* ones, and a later end is left out.  After the run only a start() that   *)
(* returns late is still observed.                                         *)
Observed == phase # "finished" \/ (Begun \cap DOMAIN Bindings) \ returned # {}

(* A run of a child starts, with its agent when the child is local.        *)
SubagentStart(call) ==
  LET child == Child(call)
      kn == IF child \in Remote THEN known ELSE known \cup {child}
      carrier == ParentOf[child]
      root == IF RootRecord(records, carrier) # None THEN RootRecord(records, carrier)
              ELSE UnboundRootRecord(records, carrier)
      above == IF root = None THEN [binding |-> None, depth |-> 1] ELSE records[root]
  IN /\ phase \in {"watching", "listing"} /\ calls[call] = "absent"
     /\ \A c \in Calls : Child(c) = child => calls[c] # "running"
     /\ Direct(child) \/ carrier \in agents
     /\ calls' = [calls EXCEPT ![call] = "running"]
     /\ agents' = IF child \in Remote THEN agents ELSE agents \cup {child}
     /\ UNCHANGED returned
     /\ IF phase # "watching" THEN Note(records, known)
        ELSE IF Direct(child)
        THEN LET rs == [records EXCEPT ![call] = Record(None, 1)]
             IN Note(AttachPendingNested(rs, call), kn)
        ELSE Observe([records EXCEPT ![call] =
                        BoundUnder(Record(root, above.depth + 1), above)], kn, marks)

(* onSubagentEnd                                                           *)
SubagentEnd(call) ==
  /\ phase = "watching" /\ calls[call] = "running"
  /\ calls' = [calls EXCEPT ![call] = "ended"]
  /\ UNCHANGED <<agents, returned>>
  /\ Observe([records EXCEPT ![call].ended = TRUE], known, marks)

(* An agent is disposed: its child was ended before, unless it is torn     *)
(* down with the Session.  Nothing is emitted.                             *)
AgentDisposed(child) ==
  /\ Observed /\ child \in agents /\ agents' = agents \ {child}
  /\ Cardinality((Begun \ Remote) \ agents) < MaxDisposed
  /\ UNCHANGED <<calls, returned>>
  /\ Note(records, IF phase = "watching" THEN known \ {child} ELSE known)

(* onAgent: the status of an agent changed.                                *)
AgentStatus(child) ==
  /\ child \in agents /\ phase = "watching"
  /\ UNCHANGED <<calls, agents, returned>>
  /\ DirectRecord(records, child) # None \/ RootRecord(records, child) # None
  /\ Observe(records, known \cup {child}, marks)

------------------------------------------------------------------------------
(* The run                                                                  *)

(* start() of a child of the plan returned, perhaps long after the run was *)
(* aborted: trackChild binds the one unbound record of the child.          *)
TrackChild(child) ==
  LET candidate == UnboundRootRecord(records, child)
      rs == BindPendingNested([records EXCEPT ![candidate].binding = child,
                                              ![candidate].depth = 1], candidate)
  IN /\ child \in DOMAIN Bindings \ returned
     /\ child \in Begun
     /\ returned' = returned \cup {child}
     /\ UNCHANGED <<calls, agents>>
     /\ IF candidate = None THEN Observe(records, known, marks \cup {Mark("direct", child, 0)})
        ELSE Observe(rs, IF child \in Remote THEN known ELSE known \cup {child},
                     marks \ {Mark("direct", child, 0)})

(* The receipt of the whole plan is published before the first child.      *)
BeginRun ==
  /\ runs[Session][Run] = None
  /\ runs' = [runs EXCEPT ![Session][Run] = createRunReceipt(Run)]
  /\ feeds' = [feeds EXCEPT ![Session].active[Run] = createRunReceipt(Run)]
  /\ UNCHANGED follower
  /\ UNCHANGED <<hostVars, observerVars>>

(* settleStage: a sample and then the settled stage are published.         *)
SettleStage(stage, status) ==
  /\ phase = "watching" /\ ending = None
  /\ CanSettle(runs[Session][Run], stage)
  /\ \A d \in StagesOf[stage].after : ~CanSettle(runs[Session][Run], d)
  /\ UNCHANGED <<calls, agents, returned, records, bound, cold, known, marks,
                 phase, ending, entries, roots>>
  /\ LET emission == Emission(records, bound, known, cold, marks)
     IN  Emit(emission, settleRunReceiptStage(emission.receipt, stage, status))

(* finishOutcome: the observer stops listening and lists the descendants.  *)
Finish(outcome) ==
  /\ phase = "watching"
  /\ outcome = "completed" <=>
       \A s \in Stages : runs[Session][Run].stages[s] = "completed"
  /\ phase' = "listing" /\ ending' = outcome
  /\ UNCHANGED <<feedVars, calls, agents, returned, records, bound, cold, known, marks,
                 admitted, entries, roots, gone>>

Conclude(coldRows, mk) ==
  /\ phase' = "finished" /\ marks' = mk
  /\ LET emission == Emission(records, bound, known, coldRows, mk)
     IN  Emit(emission, finishRunReceipt(emission.receipt, ending))

ListingFails ==
  /\ phase = "listing"
  /\ UNCHANGED <<calls, agents, returned, records, bound, cold, known, ending, entries, roots>>
  /\ Conclude(cold, marks \cup {Mark("descendants", 0, 0)})

Depth(child) ==
  LET depth[c \in Children \cup {Parent}] == IF c = Parent THEN 0 ELSE depth[ParentOf[c]] + 1
  IN depth[child]

(* The listing: every Session below the parent, some only as diagnostics.  *)
ListingReturns ==
  LET before(a, b) == Depth(a) < Depth(b) \/ (Depth(a) = Depth(b) /\ a < b)
  IN /\ phase = "listing" /\ phase' = "reading"
     /\ \E list \in [1..Cardinality(Begun) -> Begun] :
          /\ \A i, j \in DOMAIN list : i < j => before(list[i], list[j])
          /\ \E broken \in SUBSET {c \in Begun : ~Direct(c)} :
               entries' = [n \in DOMAIN list |->
                             [child |-> list[n], diagnostic |-> list[n] \in broken]]
     /\ UNCHANGED <<feedVars, calls, agents, returned, records, bound, cold, known,
                    marks, admitted, ending, roots, gone>>

HasBoundChild(child) ==
  (\E r \in cold : r.child = child) \/ \E c \in bound : Child(c) = child

ColdRow(child, root) ==
  LET binding == Bindings[records[root].binding]
  IN [child |-> child, parent |-> ParentOf[child], depth |-> Depth(child),
      stage |-> binding.stage, index |-> binding.index, run |-> None,
      source |-> "session", state |-> "ended", stop |-> None]

(* One descendant: it is known, cannot be observed, or its Session is read.*)
ReadEntry(readable) ==
  LET entry == Head(entries)
      child == entry.child
      direct == DirectRecord(records, child)
      root == IF direct # None THEN direct
              ELSE IF ParentOf[child] = Parent THEN None ELSE roots[ParentOf[child]]
  IN /\ phase = "reading" /\ entries # <<>>
     /\ entries' = Tail(entries)
     /\ roots' = [roots EXCEPT ![child] = root]
     /\ CASE root = None -> UNCHANGED <<cold, marks>>
          [] root # None /\ entry.diagnostic ->
               marks' = marks \cup {Mark("diagnostic", child, 0)} /\ UNCHANGED cold
          [] root # None /\ ~entry.diagnostic /\ HasBoundChild(child) -> UNCHANGED <<cold, marks>>
          [] OTHER ->
               IF Child(root) \in Remote
               THEN marks' = marks \cup {Mark("nested-remote", child, 0)} /\ UNCHANGED cold
               ELSE IF ~readable \/ child \in Remote
               THEN marks' = marks \cup {Mark("cold", child, 0)} /\ UNCHANGED cold
               ELSE /\ cold' = cold \cup {ColdRow(child, root)}
                    /\ marks' = marks \ {Mark("cold", child, 0)}
     /\ UNCHANGED <<feedVars, calls, agents, returned, records, bound, known,
                    admitted, phase, ending, gone>>

(* The last observation, and the receipt with the outcome of the run.      *)
ReadingEnds ==
  /\ phase = "reading" /\ entries = <<>>
  /\ UNCHANGED <<calls, agents, returned, records, bound, cold, known, ending, entries, roots>>
  /\ Conclude(cold, marks)

ObserverStep ==
  \/ BeginRun
  \/ /\ runs[Session][Run] # None
     /\ \/ \E c \in Calls : SubagentStart(c) \/ SubagentEnd(c)
        \/ \E c \in Children : AgentDisposed(c) \/ AgentStatus(c) \/ TrackChild(c)
        \/ \E s \in Stages, o \in {"completed"} : SettleStage(s, o)
        \/ \E o \in {"completed", "failed"} : Finish(o)
        \/ ListingFails \/ ListingReturns
        \/ \E readable \in BOOLEAN : ReadEntry(readable)
        \/ ReadingEnds

ObserverSpec == FeedInit /\ ObserverInit /\ [][ObserverStep]_<<feedVars, observerVars>>

------------------------------------------------------------------------------
(* Properties                                                               *)

Own == runs[Session][Run]

(* A descendant that started before those above it were bound, and that    *)
(* was not bound with them.                                                *)
Unattached(child) ==
  ~Direct(child) /\ \E c \in Recorded(records) : Child(c) = child /\ records[c].binding = None

(* What the feed refuses: a row was left out after it was published,       *)
(* because its agent is gone or a child that was bound late has its seat,  *)
(* one child has two rows, or a row stands under a descendant that has     *)
(* none.                                                                   *)
Unpublishable ==
  \/ gone # {}
  \/ ~UniqueChildren(Own.participation.rows)
  \/ \E r \in Own.participation.rows :
       r.run # None /\ r.parent # Parent /\ Unattached(r.parent)
  \/ \E r \in Own.participation.rows :
       /\ r.run = None /\ r.parent # Parent
       /\ \/ \E m \in marks : m.child = r.parent
          \/ Own.participation.truncated > 0

(* Every other receipt of the run is what the feed shows of it: a child    *)
(* that is bound late, ends early, spawns before it is bound or is read    *)
(* from its Session changes nothing the feed holds the run to              *)
(* (src/src/run-receipt.ts:961, packages/run-receipt-feed/src/feed.ts:71). *)
ReceiptReachesFeed ==
  \/ Own = None
  \/ Unpublishable
  \/ Previous(feeds[Session], Run) = Own

==============================================================================
