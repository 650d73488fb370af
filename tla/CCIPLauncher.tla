----------------------------- MODULE CCIPLauncher ------------------------------
(***************************************************************************)
(* One node's launcher, which starts and closes the node's CCIP oracles as *)
(* the home chain's registry changes, with the registry syncer that        *)
(* delivers the registry's state to it and keeps a copy in the database.   *)
(* A tick of the launcher works on one state of the registry, but reads    *)
(* the configurations of a DON from CCIPHome when it comes to that DON,    *)
(* those of the commit plugin first: the home chain moves on meanwhile.    *)
(***************************************************************************)
EXTENDS CCIPHome, FiniteSetsExt, Functions

CONSTANTS
    IsBootstrap,  \* whether the node's oracle creator makes bootstrap oracles
    Bounds,       \* bounds on what happens, one of which a behaviour keeps
    MaxOrphans,   \* the number of orphans of a digest from which on they
                  \* are not counted
    None

\* How many DONs are added and configurations set, whether the node may be out
\* of a DON, and how many reads or creations of oracles fail, oracles
\* themselves fail to start or close, and the node restarts.
Bound == [dons : 0..MaxDONs, configs : 0..MaxConfigs, memberships : SUBSET BOOLEAN,
          errors : Nat, faults : Nat, restarts : Nat]

ASSUME LauncherAssumption ==
    /\ IsBootstrap \in BOOLEAN
    /\ Bounds \subseteq Bound
    /\ MaxOrphans \in Nat \ {0}

VARIABLES
    synced,       \* whether the syncer's initial sync is over
    stored,       \* the latest state of the registry in the database
    latestState,  \* the state of the registry last given to the launcher
    regState,     \* the version processed of each DON that runs
    instances,    \* per DON that runs, its digests: does their oracle run?
    orphans,      \* the oracles that run and are in no instance, by digest
    tick,         \* what the tick has left to do, or None
    reading,      \* the DON whose commit configurations are read, or None
    bound,        \* the bounds of this behaviour
    errors, faults, restarts  \* the numbers of each so far

launcher == <<latestState, regState, instances, orphans, tick, reading>>
syncer == <<synced, stored>>
counts == <<bound, errors, faults, restarts>>
vars == <<home, syncer, launcher, counts>>

Init ==
    /\ HomeInit
    /\ synced = FALSE
    /\ stored = None
    /\ latestState = None
    /\ regState = <<>>
    /\ instances = <<>>
    /\ orphans = [x \in Digests |-> 0]
    /\ tick = None
    /\ reading = None
    /\ bound \in Bounds
    /\ errors = 0 /\ faults = 0 /\ restarts = 0

-----------------------------------------------------------------------------
(* The registry syncer. *)

\* Sync, with what Launch does with the state.  The first one after a start
\* takes the database's state; the others read the chain, and offer what they
\* read to the loop that stores it, which may be busy or fail.  The copy is not
\* followed any more once there are no more restarts.
Sync ==
    /\ \/ ~synced /\ stored # None /\ latestState' = stored /\ UNCHANGED stored
       \/ /\ latestState' = dons
          /\ stored' \in IF restarts < bound.restarts THEN {stored, dons} ELSE {None}
    /\ synced' = TRUE
    /\ UNCHANGED <<home, regState, instances, orphans, tick, reading, counts>>

-----------------------------------------------------------------------------
(* A tick of the launcher. *)

Updated(old, new) == {d \in DOMAIN old \cap DOMAIN new : new[d].version > old[d]}

\* Mutant: what is updated is removed, to be added at the next tick.
DiffRestarting(old, new) ==
    [removed |-> (DOMAIN old \ DOMAIN new) \cup Updated(old, new),
     added |-> Restrict(new, DOMAIN new \ DOMAIN old),
     updated |-> <<>>]

\* Mutant: what is updated is added.
DiffAdding(old, new) ==
    [removed |-> DOMAIN old \ DOMAIN new,
     added |-> Restrict(new, (DOMAIN new \ DOMAIN old) \cup Updated(old, new)),
     updated |-> <<>>]

\* compareDONs
Diff(old, new) ==
    [removed |-> DOMAIN old \ DOMAIN new,
     added |-> Restrict(new, DOMAIN new \ DOMAIN old),
     updated |-> Restrict(new, Updated(old, new))]

\* A tick with nothing left to do is over.
Left(work) ==
    IF work.removed = {} /\ work.added = <<>> /\ work.updated = <<>> THEN None ELSE work

Tick ==
    /\ tick = None
    /\ latestState # None
    /\ tick' = Left(Diff(regState, latestState))
    /\ UNCHANGED <<home, syncer, latestState, regState, instances, orphans,
                   reading, counts>>

\* The DONs of one kind are worked through in any order; the kinds are removed,
\* added, updated.
Removing(d) ==
    /\ tick # None
    /\ d \in tick.removed

Kinds == {"added", "updated"}

Processing(kind, d) ==
    /\ tick # None
    /\ tick.removed = {}
    /\ kind = "updated" => tick.added = <<>>
    /\ d \in DOMAIN tick[kind]

Done(kind, d) ==
    tick' = Left([tick EXCEPT ![kind] = Restrict(@, DOMAIN @ \ {d})])

\* An error ends the work on the DONs of a kind.
GivenUp(kind) == tick' = Left([tick EXCEPT ![kind] = <<>>])

\* A failure of an oracle itself.
Fault == faults < bound.faults /\ faults' = faults + 1

AllOpen(digests) == [x \in digests |-> TRUE]
NoneOpen(digests) == [x \in digests |-> FALSE]

\* Closing an oracle stops it, whether it gives an error or not; closing it
\* again gives an error.
MustFail(oracles, digests) == \E x \in digests : ~oracles[x]

\* processRemoved
ProcessRemoved(d) ==
    /\ Removing(d)
    /\ LET closing == DOMAIN instances[d]
       IN  \/ /\ ~MustFail(instances[d], closing)
              /\ instances' = Restrict(instances, DOMAIN instances \ {d})
              /\ regState' = Restrict(regState, DOMAIN regState \ {d})
              /\ tick' = Left([tick EXCEPT !.removed = @ \ {d}])
              /\ UNCHANGED faults
           \/ /\ IF MustFail(instances[d], closing) THEN UNCHANGED faults ELSE Fault
              /\ instances' = [instances EXCEPT ![d] = NoneOpen(closing)]
              /\ tick' = Left([tick EXCEPT !.removed = {}])
              /\ UNCHANGED regState
    /\ UNCHANGED <<home, syncer, latestState, orphans, reading, bound, errors, restarts>>

\* getConfigsForDon, up to the answer about the commit plugin.
ReadCommitConfigs(kind, d) ==
    /\ Processing(kind, d)
    /\ reading = None
    /\ reading' = [don |-> d, commit |-> Configured(d, "commit")]
    /\ UNCHANGED <<home, syncer, latestState, regState, instances, orphans, tick, counts>>

\* A read of the configurations fails, or the creation of an oracle.
ReadOrCreateFails(kind) ==
    /\ reading # None
    /\ Processing(kind, reading.don)
    /\ errors < bound.errors
    /\ errors' = errors + 1
    /\ GivenUp(kind)
    /\ reading' = None
    /\ UNCHANGED <<home, syncer, latestState, regState, instances, orphans,
                   bound, faults, restarts>>

\* The answer about the exec plugin completes the configurations.
Configs == reading.commit \cup Configured(reading.don, "exec")

\* Mutant: the version processed is that of the state the syncer gave last.
VersionOfLatest(don, d) ==
    IF d \in DOMAIN latestState THEN latestState[d].version ELSE don.version

\* The version that is processed is the one the tick began with.
ProcessedVersion(don, d) == don.version

\* The digests whose oracles run in a DON's instances.
Open(d) == IF d \in DOMAIN instances THEN {x \in DOMAIN instances[d] : instances[d][x]} ELSE {}

Orphaned(digests) ==
    [x \in Digests |-> IF x \in digests /\ orphans[x] < MaxOrphans
                       THEN orphans[x] + 1 ELSE orphans[x]]

\* createDON and the start of all of its oracles, which are closed again when
\* one does not start: all of them, whether closing one gives an error or not.
\* An entry there was for the DON would be written over and its oracles run on.
ProcessAdded(d) ==
    /\ Processing("added", d)
    /\ reading # None
    /\ reading.don = d
    /\ LET skipped == Configs = {} \/ ~(tick.added[d].member \/ IsBootstrap)
       IN  \/ /\ skipped
              /\ Done("added", d)
              /\ UNCHANGED <<instances, regState, orphans, faults>>
           \/ /\ ~skipped
              /\ instances' = [e \in DOMAIN instances \cup {d} |->
                                   IF e = d THEN AllOpen(Configs) ELSE instances[e]]
              /\ regState' = [e \in DOMAIN regState \cup {d} |->
                                  IF e = d THEN ProcessedVersion(tick.added[d], d) ELSE regState[e]]
              /\ orphans' = Orphaned(Open(d))
              /\ Done("added", d)
              /\ UNCHANGED faults
           \/ /\ ~skipped
              /\ Fault
              /\ GivenUp("added")
              /\ UNCHANGED <<instances, regState, orphans>>
    /\ reading' = None
    /\ UNCHANGED <<home, syncer, latestState, bound, errors, restarts>>

\* TransitionFrom succeeds: old oracles are closed, new ones opened, and those
\* whose digest stays go on.
Transition(d) ==
    /\ ~MustFail(instances[d], DOMAIN instances[d] \ Configs)
    /\ instances' = [instances EXCEPT ![d] =
                         [x \in Configs |-> x \in DOMAIN @ => @[x]]]
    /\ regState' = [regState EXCEPT ![d] = ProcessedVersion(tick.updated[d], d)]
    /\ Done("updated", d)
    /\ UNCHANGED <<orphans, faults>>

\* Mutant: once closing has failed, nothing is started.
TransitionFailsAtOnce(d) ==
    LET closing == DOMAIN instances[d] \ Configs
        opening == Configs \ DOMAIN instances[d]
    IN  /\ \E failing \in SUBSET opening :
              /\ IF failing = {} /\ MustFail(instances[d], closing)
                 THEN UNCHANGED faults
                 ELSE Fault /\ closing \cup failing # {}
              /\ orphans' = IF failing = {} THEN orphans ELSE Orphaned(opening \ failing)
        /\ instances' = [instances EXCEPT ![d] =
                             [x \in DOMAIN @ |-> @[x] /\ x \notin closing]]
        /\ GivenUp("updated")
        /\ UNCHANGED regState

\* It fails: an oracle gives an error when it is closed, for the first time or
\* because it was closed before, or some oracles do not start.  All have been
\* closed and started; what has started is in no instance.
TransitionFails(d) ==
    LET closing == DOMAIN instances[d] \ Configs
        opening == Configs \ DOMAIN instances[d]
    IN  /\ \E failing \in SUBSET opening :
              /\ IF failing = {} /\ MustFail(instances[d], closing)
                 THEN UNCHANGED faults
                 ELSE Fault /\ closing \cup failing # {}
              /\ orphans' = Orphaned(opening \ failing)
        /\ instances' = [instances EXCEPT ![d] =
                             [x \in DOMAIN @ |-> @[x] /\ x \notin closing]]
        /\ GivenUp("updated")
        /\ UNCHANGED regState

\* processUpdate
ProcessUpdate(d) ==
    /\ Processing("updated", d)
    /\ reading # None
    /\ reading.don = d
    /\ LET skipped == Configs = {} \/ ~tick.updated[d].member
       IN  \/ /\ skipped
              /\ Done("updated", d)
              /\ UNCHANGED <<instances, regState, orphans, faults>>
           \/ ~skipped /\ Transition(d)
           \/ ~skipped /\ TransitionFails(d)
    /\ reading' = None
    /\ UNCHANGED <<home, syncer, latestState, bound, errors, restarts>>

-----------------------------------------------------------------------------

\* The node stops, at any point, and starts again with its database.
Restart ==
    /\ restarts < bound.restarts
    /\ restarts' = restarts + 1
    /\ synced' = FALSE
    /\ latestState' = None
    /\ regState' = <<>>
    /\ instances' = <<>>
    /\ orphans' = [x \in Digests |-> 0]
    /\ tick' = None
    /\ reading' = None
    /\ UNCHANGED <<home, stored, bound, errors, faults>>

Launcher ==
    \/ Tick
    \/ \E d \in DONIds : ProcessRemoved(d) \/ ProcessAdded(d) \/ ProcessUpdate(d)
    \/ \E kind \in Kinds, d \in DONIds : ReadCommitConfigs(kind, d)
    \/ \E kind \in Kinds : ReadOrCreateFails(kind)

\* A step of the home chain.
HomeChanges ==
    /\ HomeNext
    /\ nextDONId' <= bound.dons + 1
    /\ currentVersion' <= bound.configs
    /\ \A d \in DOMAIN dons' : dons'[d].member \in bound.memberships
    /\ UNCHANGED <<syncer, launcher, counts>>

Next == HomeChanges \/ Sync \/ Launcher \/ Restart

\* Syncer and launcher work by tickers of their own.
Spec == Init /\ [][Next]_vars /\ WF_vars(Sync) /\ WF_vars(Launcher)

-----------------------------------------------------------------------------
(* Properties. *)

\* The number of oracles that run for a digest.
Runs(x) == orphans[x] + Cardinality({d \in DONIds : x \in Open(d)})

\* The digests configured for a DON, while it exists.
HomeConfigs(d) ==
    IF d \in DOMAIN dons THEN Configured(d, "commit") \cup Configured(d, "exec") ELSE {}

\* As long as no oracle itself has failed, no configuration is served by two
\* oracles of the node, whatever is read while the home chain moves on, given up
\* after an error and tried again, or started from the database.
OneOracleEach == faults = 0 => \A x \in Digests : Runs(x) <= 1

\* As long as a configuration stands, its oracle is not closed: promoting a
\* candidate or changing another plugin or DON does not interrupt it.
KeepsConfigured ==
    [][\A d \in DONIds :
           restarts' = restarts => (Open(d) \ Open(d)') \cap HomeConfigs(d) = {}]_vars

\* When no oracle itself fails and the home chain stays as it is, the oracles of
\* a DON the node is in come to be those of the configurations there, and those
\* of a DON that is gone are closed.
MatchesHome ==
    <>[](\/ faults > 0
         \/ \A d \in DONIds :
                \/ d \notin DOMAIN dons
                \/ dons[d].member /\ HomeConfigs(d) # {}
                => Open(d) = HomeConfigs(d))

\* Even when oracles fail to start or to close, every configuration of a DON the
\* node is in is served in the end.
ServedDespiteFaults ==
    <>[](\A d \in DOMAIN dons :
             dons[d].member => \A x \in HomeConfigs(d) : Runs(x) > 0)

\* What the launcher's README says: "the launcher will start and shut them down
\* as required in order to match the configuration that was posted on-chain in
\* the Capability Registry and the CCIPHome.sol contract", for the DONs the node
\* is in or, when it is a bootstrap node, for all of them.
MatchesPosted ==
    <>[](\A d \in DONIds :
             Open(d) = IF d \in DOMAIN dons /\ (dons[d].member \/ IsBootstrap)
                       THEN HomeConfigs(d) ELSE {})
=============================================================================
