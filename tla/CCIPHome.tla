------------------------------- MODULE CCIPHome --------------------------------
(***************************************************************************)
(* The home chain: the CapabilitiesRegistry, which lists the DONs that run *)
(* CCIP, and CCIPHome, which keeps for each DON and plugin the digests of  *)
(* its active and its candidate OCR configuration.  CCIPHome is only       *)
(* called by the registry, once for each DON that is added or updated.     *)
(***************************************************************************)
EXTENDS Naturals

CONSTANTS
    MaxDONs,      \* bound on the DONs added
    MaxConfigs,   \* bound on the configurations set
    Memberships   \* whether an update may list the node among the DON's nodes

ASSUME CCIPHomeAssumption ==
    /\ MaxDONs \in Nat
    /\ MaxConfigs \in Nat
    /\ Memberships \subseteq BOOLEAN

VARIABLES
    dons,           \* the DONs: their configCount, and whether the node is in
    nextDONId,      \* s_nextDONId
    s_configs,      \* the digests in the two places of a DON's plugin
    activeIndex,    \* s_activeConfigIndexes
    currentVersion  \* s_currentVersion

home == <<dons, nextDONId, s_configs, activeIndex, currentVersion>>

DONIds == 1..MaxDONs
Plugins == {"commit", "exec"}
Places == {0, 1}

\* A digest is the hash of a configuration and of its version; it is
\* represented by the version.
NoDigest == 0
Digests == 1..MaxConfigs

DON == [version : Nat \ {0}, member : BOOLEAN]

HomeInit ==
    /\ dons = <<>>
    /\ nextDONId = 1
    /\ s_configs = [d \in DONIds |-> [p \in Plugins |-> [i \in Places |-> NoDigest]]]
    /\ activeIndex = [d \in DONIds |-> [p \in Plugins |-> 0]]
    /\ currentVersion = 0

ActiveDigest(d, p) == s_configs[d][p][activeIndex[d][p]]
CandidateDigest(d, p) == s_configs[d][p][1 - activeIndex[d][p]]

\* What getAllConfigs shows.
Configured(d, p) == {ActiveDigest(d, p), CandidateDigest(d, p)} \ {NoDigest}

-----------------------------------------------------------------------------
(* The calls of CCIPHome.  Their caller names the digests it replaces,     *)
(* revokes or promotes, and they revert when it is wrong.                  *)

\* Mutant: a configuration that overwrites a candidate takes no new version.
SetCandidateVersionKept(d, p) ==
    /\ currentVersion < MaxConfigs
    /\ currentVersion' = IF CandidateDigest(d, p) = NoDigest
                         THEN currentVersion + 1 ELSE currentVersion
    /\ s_configs' = [s_configs EXCEPT ![d][p][1 - activeIndex[d][p]] = currentVersion']
    /\ UNCHANGED activeIndex

\* A candidate that is there is overwritten.
SetCandidate(d, p) ==
    /\ currentVersion < MaxConfigs
    /\ currentVersion' = currentVersion + 1
    /\ s_configs' = [s_configs EXCEPT ![d][p][1 - activeIndex[d][p]] = currentVersion']
    /\ UNCHANGED activeIndex

RevokeCandidate(d, p) ==
    /\ CandidateDigest(d, p) # NoDigest
    /\ s_configs' = [s_configs EXCEPT ![d][p][1 - activeIndex[d][p]] = NoDigest]
    /\ UNCHANGED <<activeIndex, currentVersion>>

\* Mutant: the active digest is not deleted.
PromoteKeepingActive(d, p) ==
    /\ Configured(d, p) # {}
    /\ activeIndex' = [activeIndex EXCEPT ![d][p] = 1 - @]
    /\ UNCHANGED <<s_configs, currentVersion>>

\* Without a candidate the plugin is left with no configuration.
PromoteCandidateAndRevokeActive(d, p) ==
    /\ Configured(d, p) # {}
    /\ s_configs' = [s_configs EXCEPT ![d][p][activeIndex[d][p]] = NoDigest]
    /\ activeIndex' = [activeIndex EXCEPT ![d][p] = 1 - @]
    /\ UNCHANGED currentVersion

-----------------------------------------------------------------------------
(* The calls of the registry's owner. *)

\* Of the calls of CCIPHome only setCandidate has something to work on.
AddDON(p, member) ==
    /\ nextDONId \in DONIds
    /\ SetCandidate(nextDONId, p)
    /\ dons' = [d \in DOMAIN dons \cup {nextDONId} |->
                    IF d = nextDONId THEN [version |-> 1, member |-> member]
                    ELSE dons[d]]
    /\ nextDONId' = nextDONId + 1

\* An update without capability configurations calls nobody and changes nothing
\* that getDON shows: what it writes, _setDONConfig writes for each of them.
\* Its nodes stay in the place of the next update, whose members may therefore
\* be others than those it was given; here they are any.
UpdateDON(d, p, member) ==
    /\ d \in DOMAIN dons
    /\ \/ SetCandidate(d, p)
       \/ RevokeCandidate(d, p)
       \/ PromoteCandidateAndRevokeActive(d, p)
    /\ dons' = [dons EXCEPT ![d] = [version |-> @.version + 1, member |-> member]]
    /\ UNCHANGED nextDONId

\* CCIPHome is not told.
RemoveDON(d) ==
    /\ d \in DOMAIN dons
    /\ dons' = [e \in DOMAIN dons \ {d} |-> dons[e]]
    /\ UNCHANGED <<nextDONId, s_configs, activeIndex, currentVersion>>

HomeNext ==
    \/ \E p \in Plugins, member \in Memberships : AddDON(p, member)
    \/ \E d \in DONIds, p \in Plugins, member \in Memberships : UpdateDON(d, p, member)
    \/ \E d \in DONIds : RemoveDON(d)

HomeSpec == HomeInit /\ [][HomeNext]_home

-----------------------------------------------------------------------------
(* Properties. *)

HomeTypeOK ==
    /\ DOMAIN dons \subseteq DONIds
    /\ \A d \in DOMAIN dons : dons[d] \in DON
    /\ nextDONId \in 1..MaxDONs + 1
    /\ s_configs \in [DONIds -> [Plugins -> [Places -> 0..MaxConfigs]]]
    /\ activeIndex \in [DONIds -> [Plugins -> Places]]
    /\ currentVersion \in 0..MaxConfigs

\* A digest is that of one plugin of one DON only, in one of its two places:
\* nodes tell oracles by their digest alone.
DigestsUnique ==
    \A d, e \in DONIds, p, q \in Plugins, i, j \in Places :
        /\ s_configs[d][p][i] = s_configs[e][q][j]
        /\ s_configs[d][p][i] # NoDigest
        => d = e /\ p = q /\ i = j

\* A digest that is no longer configured never is again: a node may forget the
\* oracle it has run for it.
DigestsNeverReturn ==
    [][\A d \in DONIds, p \in Plugins :
           \A digest \in Configured(d, p)' \ Configured(d, p) :
               digest > currentVersion]_home

-----------------------------------------------------------------------------
(* The states of a plugin's configuration that the contract's comment and  *)
(* the launcher's README draw.                                             *)

ConfigState(d, p) ==
    IF ActiveDigest(d, p) = NoDigest
    THEN IF CandidateDigest(d, p) = NoDigest THEN "Init" ELSE "Candidate"
    ELSE IF CandidateDigest(d, p) = NoDigest THEN "Active" ELSE "ActiveAndCandidate"

Diagram == INSTANCE ConfigStates WITH
    Keys <- DONIds \X Plugins,
    state <- [k \in DONIds \X Plugins |-> ConfigState(k[1], k[2])]

\* Through whatever updates, in place and by index, every plugin's
\* configuration moves as the drawing says.
FollowsDiagram == Diagram!Spec
=============================================================================
