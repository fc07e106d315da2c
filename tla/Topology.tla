------------------------------- MODULE Topology -------------------------------
(***************************************************************************)
(* Editing a simulation while it is used: blocks, connections and events   *)
(* are added and removed at once between runs, and through the queue of    *)
(* pending operations from callbacks during a run (src/simulation.rs,      *)
(* src/pybindings/py/simulation.rs).  The queue is drained at the top of   *)
(* every timestep; the evaluation graph and the list of dynamic blocks     *)
(* have to follow.  A connection may name a port alias that does not       *)
(* exist; assembling the graph then fails.                                 *)
(***************************************************************************)
EXTENDS Integers, SequencesExt

CONSTANTS
    Blocks, Connections, Events,
    Dynamic,            \* the blocks that get an engine
    Unresolvable,       \* the connections with an undefined port alias
    EditsBetweenRuns,   \* whether the user also edits between runs
    MaxQueue, MaxLength \* bounds on pending operations and on each list

ASSUME SystemAssumption ==
    /\ Dynamic \subseteq Blocks /\ Unresolvable \subseteq Connections
    /\ Blocks \cap Connections = {} /\ Blocks \cap Events = {} /\ Connections \cap Events = {}
    /\ EditsBetweenRuns \in BOOLEAN
    /\ MaxQueue \in Nat /\ MaxLength \in Nat

Items == Blocks \cup Connections \cup Events
\* PendingOp
Operations == [add : BOOLEAN, item : Items]
NoGraph == <<>>

VARIABLES
    blocks, connections, events,
    dynamic,    \* _blocks_dyn_indices
    graph,      \* the blocks and connections it was assembled from, or NoGraph
    dirty,      \* _graph_dirty
    error,      \* _assembly_error is set
    active,
    queue,      \* _pending_ops
    pc,         \* "idle", "run" (between steps), "step", "evaluated", "bailed"
    wanted,     \* the items that should be there after all that was asked for
    overtaken   \* items edited again while an edit of them was pending

system == <<blocks, connections, events, dynamic>>
derived == <<graph, dirty, error>>
asked == <<wanted, overtaken>>
vars == <<system, derived, active, queue, pc, asked>>

-----------------------------------------------------------------------------
Present == ToSet(blocks) \cup ToSet(connections) \cup ToSet(events)
Indices(bs) == {i \in DOMAIN bs : bs[i] \in Dynamic}

\* The elements of a list at some places, in their order.
Kept(list, places) ==
    LET kept[i \in 0 .. Len(list)] ==
            IF i = 0 THEN <<>>
            ELSE IF i \in places THEN Append(kept[i - 1], list[i]) ELSE kept[i - 1]
    IN  kept[Len(list)]

Without(list, items) == Kept(list, {i \in DOMAIN list : list[i] \notin items})

\* A list with the blocks of another one that are not on it yet.
EnlistedOnce(bs, new) ==
    bs \o Kept(new, {i \in DOMAIN new : /\ new[i] \notin ToSet(bs)
                                       /\ \A j \in 1 .. i - 1 : new[j] # new[i]})

\* _assemble_graph: on failure the old graph stays, and is not dirty any more.
Assembled(bs, cs) == <<bs, cs>>
Fails(cs) == ToSet(cs) \cap Unresolvable # {}

\* Once there is a graph, a change makes it dirty.
Touch(changed) == dirty' = (dirty \/ (changed /\ graph # NoGraph))

\* Built from any lists; a block that is given twice is added once.
Init ==
    /\ blocks \in {EnlistedOnce(<<>>, bs) : bs \in SeqOf(Blocks, MaxLength)}
    /\ connections \in SeqOf(Connections, MaxLength)
    /\ events \in SeqOf(Events, MaxLength)
    /\ dynamic = Indices(blocks)
    /\ graph = IF Fails(connections) THEN NoGraph ELSE Assembled(blocks, connections)
    /\ dirty = FALSE /\ error = Fails(connections)
    /\ active = TRUE /\ queue = <<>> /\ pc = "idle"
    /\ wanted = Present /\ overtaken = {}

-----------------------------------------------------------------------------
(* Edits *)

Wish(op) == wanted' = IF op.add THEN wanted \cup {op.item} ELSE wanted \ {op.item}
Pending(add, item) == [add |-> add, item |-> item] \in ToSet(queue)

\* A callback's edit is queued.
Enqueue(op) ==
    /\ Len(queue) < MaxQueue
    /\ queue' = Append(queue, op)
    /\ Wish(op)
    /\ overtaken' = IF ~op.add /\ Pending(TRUE, op.item) THEN overtaken \cup {op.item}
                    ELSE IF Pending(TRUE, op.item) \/ Pending(FALSE, op.item) THEN overtaken
                    ELSE overtaken \ {op.item}
    /\ UNCHANGED <<system, derived, active, pc>>

AddBlock(b) ==
    /\ b \in Blocks
    /\ IF b \in ToSet(blocks) THEN UNCHANGED <<blocks, dynamic, dirty>>
       ELSE /\ blocks' = Append(blocks, b)
            /\ dynamic' = dynamic \cup (IF b \in Dynamic THEN {Len(blocks')} ELSE {})
            /\ Touch(TRUE)
    /\ UNCHANGED <<connections, events>>

RemoveBlock(b) ==
    /\ b \in Blocks
    /\ blocks' = Without(blocks, {b})
    /\ dynamic' = Indices(blocks')
    /\ Touch(b \in ToSet(blocks))
    /\ UNCHANGED <<connections, events>>

AddConnection(c) ==
    /\ c \in Connections
    /\ connections' = Append(connections, c)
    /\ Touch(TRUE)
    /\ UNCHANGED <<blocks, events, dynamic>>

RemoveConnection(c) ==
    /\ c \in Connections
    /\ connections' = Without(connections, {c})
    /\ Touch(c \in ToSet(connections))
    /\ UNCHANGED <<blocks, events, dynamic>>

EditEvents(op) ==
    /\ op.item \in Events
    /\ events' = IF op.add THEN Append(events, op.item) ELSE Without(events, {op.item})
    /\ UNCHANGED <<blocks, connections, dynamic, dirty>>

\* An edit outside a run is applied at once.
EditNow(op) ==
    /\ \/ op.add /\ (AddBlock(op.item) \/ AddConnection(op.item))
       \/ ~op.add /\ (RemoveBlock(op.item) \/ RemoveConnection(op.item))
       \/ EditEvents(op)
    /\ \A list \in {blocks', connections', events'} : Len(list) <= MaxLength
    /\ Wish(op)
    /\ overtaken' = IF Pending(TRUE, op.item) \/ Pending(FALSE, op.item)
                    THEN overtaken \cup {op.item} ELSE overtaken \ {op.item}
    /\ UNCHANGED <<graph, error, active, queue, pc>>

\* Between runs the user calls the simulation or a handle on the queue.
Edit ==
    \E op \in Operations :
        \/ pc # "idle" /\ Enqueue(op)
        \/ pc = "idle" /\ EditsBetweenRuns /\ (EditNow(op) \/ Enqueue(op))

\* _apply_pending_ops: removals first, then additions, one rebuild.
Removed == {op.item : op \in {o \in ToSet(queue) : ~o.add}}
Additions(kind) == Kept(queue, {i \in DOMAIN queue : queue[i].add /\ queue[i].item \in kind})
Added(kind) == [i \in DOMAIN Additions(kind) |-> Additions(kind)[i].item]

\* (Mutant: removals last.)
DrainedAddsFirst(list, kind) == Without(list \o Added(kind), Removed)
Drained(list, kind) == Without(list, Removed) \o Added(kind)

\* (Mutant: removing a connection is not a change.)
ChangedByAdding(bs) ==
    bs # blocks \/ Added(Connections) # <<>>
Changed(bs) ==
    \/ bs # blocks \/ Removed \cap ToSet(blocks) # {}
    \/ Added(Connections) # <<>> \/ Removed \cap ToSet(connections) # {}

ApplyPending ==
    /\ blocks' = EnlistedOnce(Without(blocks, Removed), Added(Blocks))
    /\ connections' = Drained(connections, Connections)
    /\ events' = Drained(events, Events)
    /\ \A list \in {blocks', connections', events'} : Len(list) <= MaxLength
    /\ dynamic' = IF Changed(blocks') THEN Indices(blocks') ELSE dynamic
    /\ Touch(Changed(blocks'))
    /\ queue' = <<>>

-----------------------------------------------------------------------------
(* Runs *)

\* _update: evaluates along the graph, or stops the run.
Update ==
    /\ IF dirty
       THEN /\ graph' = IF Fails(connections) THEN graph ELSE Assembled(blocks, connections)
            /\ error' = Fails(connections)
            /\ dirty' = FALSE
       ELSE UNCHANGED derived
    /\ IF error' THEN active' = FALSE /\ pc' = "bailed"
       ELSE pc' = "evaluated" /\ UNCHANGED active

RunBegin ==
    /\ pc = "idle"
    /\ pc' = "step" /\ active' = TRUE
    /\ UNCHANGED <<system, derived, queue, asked>>

\* Any number of evaluations, of the initial state or of one attempt.
Evaluate ==
    /\ pc \in {"step", "evaluated", "bailed"}
    /\ Update
    /\ UNCHANGED <<system, queue, asked>>

StepDone ==
    /\ pc \in {"evaluated", "bailed"}
    /\ pc' = "run"
    /\ UNCHANGED <<system, derived, active, queue, asked>>

StepBegin ==
    /\ pc = "run" /\ active
    /\ ApplyPending
    /\ pc' = "step"
    /\ UNCHANGED <<graph, error, active, asked>>

\* The run is over or was stopped; its wrapper takes the error and raises it.
RunEnd ==
    /\ pc = "run"
    /\ pc' = "idle" /\ error' = FALSE
    /\ UNCHANGED <<system, graph, dirty, active, queue, asked>>

Next == Edit \/ RunBegin \/ Evaluate \/ StepDone \/ StepBegin \/ RunEnd
Spec == Init /\ [][Next]_vars

-----------------------------------------------------------------------------
TypeOK ==
    /\ blocks \in Seq(Blocks) /\ connections \in Seq(Connections) /\ events \in Seq(Events)
    /\ dynamic \subseteq DOMAIN blocks
    /\ graph = NoGraph \/ graph \in Seq(Blocks) \X Seq(Connections)
    /\ dirty \in BOOLEAN /\ error \in BOOLEAN /\ active \in BOOLEAN
    /\ queue \in Seq(Operations)
    /\ pc \in {"idle", "run", "step", "evaluated", "bailed"}
    /\ wanted \subseteq Items /\ overtaken \subseteq Items

\* Each dynamic block of the list has its place in _blocks_dyn_indices, and one only.
IndicesCurrent ==
    /\ dynamic = Indices(blocks)
    /\ \A i, j \in DOMAIN blocks : blocks[i] = blocks[j] => i = j

\* No evaluation uses any graph but that of the lists.
GraphIsCurrent == pc = "evaluated" => graph = Assembled(blocks, connections)

\* What the engine derives from its lists follows every edit and drained batch: the
\* solver loops go over indices and the graph holds places, so either one that is
\* older than the lists steps or evaluates other blocks.
StructuresAreCurrent == IndicesCurrent /\ GraphIsCurrent

\* Once nothing is pending, the simulation has the items it was asked to have,
\* if no edit of an item overtook one that was pending.
EditsLand == queue = <<>> => \A x \in Items \ overtaken : x \in Present <=> x \in wanted

=============================================================================
