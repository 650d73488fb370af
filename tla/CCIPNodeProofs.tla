---------------------------- MODULE CCIPNodeProofs ----------------------------
(***************************************************************************)
(* The home chain, the launcher that follows it and the two plugins it     *)
(* starts, for any number of DONs, configurations, nodes and messages.     *)
(* The digests CCIPHome gives out are told apart for ever and move through *)
(* the states of its drawing.  The launcher runs one oracle for a digest,  *)
(* and does not close it while the digest stands. The commit plugin        *)
(* implements the store the exec plugin relies on: a root is signed by an  *)
(* honest node, which has every message of it. The exec plugin never signs *)
(* token data that only faulty nodes observed: more nodes than can be      *)
(* faulty observed each.                                                   *)
(***************************************************************************)
EXTENDS CCIPLauncher, CCIPCommit, CCIPExec, FiniteSetTheorems, TLAPS

-----------------------------------------------------------------------------
(* The home chain. *)

DigestOf(d, p, i) == s_configs[d][p][i]

HomeInv ==
    /\ HomeTypeOK
    /\ \A d \in DONIds, p \in Plugins, i \in Places : DigestOf(d, p, i) <= currentVersion
    /\ DigestsUnique

\* What the three calls do to the places of all plugins: only one place of
\* one plugin changes.
OnlyPlace(d, p, i, digest) ==
    \A e \in DONIds, q \in Plugins, j \in Places :
        DigestOf(e, q, j)' = IF e = d /\ q = p /\ j = i THEN digest ELSE DigestOf(e, q, j)

OnlyIndex(d, p, index) ==
    \A e \in DONIds, q \in Plugins :
        activeIndex'[e][q] = IF e = d /\ q = p THEN index ELSE activeIndex[e][q]

LEMMA SetCandidateEffect ==
    ASSUME HomeTypeOK, NEW d \in DONIds, NEW p \in Plugins, SetCandidate(d, p)
    PROVE  /\ currentVersion' = currentVersion + 1
           /\ currentVersion' \in 0..MaxConfigs
           /\ s_configs' \in [DONIds -> [Plugins -> [Places -> 0..MaxConfigs]]]
           /\ OnlyPlace(d, p, 1 - activeIndex[d][p], currentVersion + 1)
           /\ UNCHANGED activeIndex
<1> DEFINE i == 1 - activeIndex[d][p]
<1>1. i \in Places
  <2>1. activeIndex[d][p] \in Places
    BY DEF HomeTypeOK
  <2> QED BY <2>1 DEF Places
<1>2. currentVersion + 1 \in 0..MaxConfigs
  BY CCIPHomeAssumption DEF HomeTypeOK, SetCandidate
<1>3. s_configs' = [s_configs EXCEPT ![d][p][i] = currentVersion + 1]
  BY DEF SetCandidate
<1> HIDE DEF i
<1> QED BY <1>1, <1>2, <1>3 DEF HomeTypeOK, SetCandidate, OnlyPlace, DigestOf, i

LEMMA RevokeCandidateEffect ==
    ASSUME HomeTypeOK, NEW d \in DONIds, NEW p \in Plugins, RevokeCandidate(d, p)
    PROVE  /\ s_configs' \in [DONIds -> [Plugins -> [Places -> 0..MaxConfigs]]]
           /\ OnlyPlace(d, p, 1 - activeIndex[d][p], NoDigest)
           /\ DigestOf(d, p, 1 - activeIndex[d][p]) # NoDigest
           /\ UNCHANGED <<activeIndex, currentVersion>>
<1> DEFINE i == 1 - activeIndex[d][p]
<1>1. i \in Places
  <2>1. activeIndex[d][p] \in Places
    BY DEF HomeTypeOK
  <2> QED BY <2>1 DEF Places
<1>2. NoDigest \in 0..MaxConfigs
  BY CCIPHomeAssumption DEF NoDigest
<1>3. s_configs' = [s_configs EXCEPT ![d][p][i] = NoDigest]
  BY DEF RevokeCandidate
<1> HIDE DEF i
<1> QED BY <1>1, <1>2, <1>3
        DEF HomeTypeOK, RevokeCandidate, CandidateDigest, OnlyPlace, DigestOf, i

LEMMA PromoteEffect ==
    ASSUME HomeTypeOK, NEW d \in DONIds, NEW p \in Plugins,
           PromoteCandidateAndRevokeActive(d, p)
    PROVE  /\ s_configs' \in [DONIds -> [Plugins -> [Places -> 0..MaxConfigs]]]
           /\ activeIndex' \in [DONIds -> [Plugins -> Places]]
           /\ OnlyPlace(d, p, activeIndex[d][p], NoDigest)
           /\ OnlyIndex(d, p, 1 - activeIndex[d][p])
           /\ Configured(d, p) # {}
           /\ UNCHANGED currentVersion
<1>1. activeIndex[d][p] \in Places /\ 1 - activeIndex[d][p] \in Places
  BY DEF HomeTypeOK, Places
<1>2. NoDigest \in 0..MaxConfigs
  BY CCIPHomeAssumption DEF NoDigest
<1>3. /\ s_configs' = [s_configs EXCEPT ![d][p][activeIndex[d][p]] = NoDigest]
      /\ activeIndex' = [activeIndex EXCEPT ![d][p] = 1 - activeIndex[d][p]]
  BY DEF PromoteCandidateAndRevokeActive
<1> QED BY <1>1, <1>2, <1>3
        DEF HomeTypeOK, PromoteCandidateAndRevokeActive, OnlyPlace, OnlyIndex, DigestOf

\* One call of CCIPHome, for one plugin.
Calls(d, p) ==
    \/ SetCandidate(d, p)
    \/ RevokeCandidate(d, p)
    \/ PromoteCandidateAndRevokeActive(d, p)

\* Every step of the home chain makes one such call, or none.
LEMMA OneCallOrNone ==
    ASSUME HomeTypeOK, [HomeNext]_home
    PROVE  \/ \E d \in DONIds, p \in Plugins : Calls(d, p)
           \/ UNCHANGED <<s_configs, activeIndex, currentVersion>>
<1>1. ASSUME NEW p \in Plugins, NEW member \in Memberships, AddDON(p, member)
      PROVE  \E d \in DONIds : Calls(d, p)
  BY <1>1 DEF AddDON, Calls
<1>2. ASSUME NEW d \in DONIds, NEW p \in Plugins, NEW member \in Memberships,
             UpdateDON(d, p, member)
      PROVE  Calls(d, p)
  BY <1>2 DEF UpdateDON, Calls
<1>3. ASSUME NEW d \in DONIds, RemoveDON(d)
      PROVE  UNCHANGED <<s_configs, activeIndex, currentVersion>>
  BY <1>3 DEF RemoveDON
<1> QED BY <1>1, <1>2, <1>3 DEF HomeNext, home

\* The DONs keep their types.
LEMMA DONsTyped ==
    ASSUME HomeTypeOK, [HomeNext]_home
    PROVE  /\ DOMAIN dons' \subseteq DONIds
           /\ \A d \in DOMAIN dons' : dons'[d] \in DON
           /\ nextDONId' \in 1..MaxDONs + 1
<1>1. ASSUME NEW p \in Plugins, NEW member \in Memberships, AddDON(p, member)
      PROVE  /\ DOMAIN dons' \subseteq DONIds
             /\ \A d \in DOMAIN dons' : dons'[d] \in DON
             /\ nextDONId' \in 1..MaxDONs + 1
  <2>1. [version |-> 1, member |-> member] \in DON
    BY CCIPHomeAssumption DEF DON
  <2>2. nextDONId' \in 1..MaxDONs + 1
    BY <1>1, CCIPHomeAssumption DEF AddDON, DONIds, HomeTypeOK
  <2> QED BY <1>1, <2>1, <2>2 DEF AddDON, HomeTypeOK
<1>2. ASSUME NEW d \in DONIds, NEW p \in Plugins, NEW member \in Memberships,
             UpdateDON(d, p, member)
      PROVE  /\ DOMAIN dons' \subseteq DONIds
             /\ \A e \in DOMAIN dons' : dons'[e] \in DON
             /\ nextDONId' \in 1..MaxDONs + 1
  <2>1. [version |-> dons[d].version + 1, member |-> member] \in DON
    BY <1>2, CCIPHomeAssumption DEF UpdateDON, DON, HomeTypeOK
  <2> QED BY <1>2, <2>1 DEF UpdateDON, HomeTypeOK
<1>3. ASSUME NEW d \in DONIds, RemoveDON(d)
      PROVE  /\ DOMAIN dons' \subseteq DONIds
             /\ \A e \in DOMAIN dons' : dons'[e] \in DON
             /\ nextDONId' \in 1..MaxDONs + 1
  BY <1>3 DEF RemoveDON, HomeTypeOK
<1>4. CASE UNCHANGED home
  BY <1>4 DEF home, HomeTypeOK
<1> QED BY <1>1, <1>2, <1>3, <1>4 DEF HomeNext

\* Changing one place to no digest, or to a new one, keeps digests unique.
LEMMA OnePlaceKeepsUnique ==
    ASSUME HomeInv, NEW d \in DONIds, NEW p \in Plugins, NEW i \in Places,
           NEW digest \in {NoDigest, currentVersion + 1},
           OnlyPlace(d, p, i, digest), currentVersion' \in {currentVersion, currentVersion + 1},
           digest <= currentVersion'
    PROVE  /\ \A e \in DONIds, q \in Plugins, j \in Places : DigestOf(e, q, j)' <= currentVersion'
           /\ DigestsUnique'
<1> DEFINE Other(e, q, j) == ~(e = d /\ q = p /\ j = i)
<1>1. \A e \in DONIds, q \in Plugins, j \in Places :
         /\ DigestOf(e, q, j) \in Nat
         /\ DigestOf(e, q, j) <= currentVersion
  BY DEF HomeInv, HomeTypeOK, DigestOf
<1>2. currentVersion \in Nat
  BY DEF HomeInv, HomeTypeOK
<1>3. \A e \in DONIds, q \in Plugins, j \in Places :
         Other(e, q, j) => DigestOf(e, q, j)' = DigestOf(e, q, j)
  BY DEF OnlyPlace
<1>4. DigestOf(d, p, i)' = digest
  BY DEF OnlyPlace
<1>5. ASSUME NEW e \in DONIds, NEW q \in Plugins, NEW j \in Places
      PROVE  DigestOf(e, q, j)' <= currentVersion'
  BY <1>1, <1>2, <1>3, <1>4
<1>6. ASSUME NEW e \in DONIds, NEW f \in DONIds, NEW q \in Plugins, NEW r \in Plugins,
             NEW j \in Places, NEW k \in Places,
             DigestOf(e, q, j)' = DigestOf(f, r, k)', DigestOf(e, q, j)' # NoDigest
      PROVE  e = f /\ q = r /\ j = k
  <2>1. CASE Other(e, q, j) /\ Other(f, r, k)
    <3>1. DigestOf(e, q, j) = DigestOf(f, r, k) /\ DigestOf(e, q, j) # NoDigest
      BY <1>3, <1>6, <2>1
    <3> QED BY <3>1 DEF HomeInv, DigestsUnique, DigestOf
  <2>2. CASE Other(e, q, j) /\ ~Other(f, r, k)
    BY <1>1, <1>2, <1>3, <1>4, <1>6, <2>2
  <2>3. CASE ~Other(e, q, j) /\ Other(f, r, k)
    BY <1>1, <1>2, <1>3, <1>4, <1>6, <2>3
  <2>4. CASE ~Other(e, q, j) /\ ~Other(f, r, k)
    BY <2>4
  <2> QED BY <2>1, <2>2, <2>3, <2>4
<1>7. DigestsUnique'
  BY <1>6 DEF DigestsUnique, DigestOf
<1> QED BY <1>5, <1>7

LEMMA InitHomeInv == HomeInit => HomeInv
BY CCIPHomeAssumption
DEF HomeInit, HomeInv, HomeTypeOK, DigestsUnique, DigestOf, NoDigest, Places, DONIds

LEMMA NextHomeInv ==
    ASSUME HomeInv, [HomeNext]_home
    PROVE  HomeInv'
<1>1. HomeTypeOK /\ currentVersion \in Nat
  BY DEF HomeInv, HomeTypeOK
<1>2. /\ DOMAIN dons' \subseteq DONIds
      /\ \A d \in DOMAIN dons' : dons'[d] \in DON
      /\ nextDONId' \in 1..MaxDONs + 1
  BY <1>1, DONsTyped
<1>3. ASSUME NEW d \in DONIds, NEW p \in Plugins, SetCandidate(d, p) PROVE HomeInv'
  <2>1. 1 - activeIndex[d][p] \in Places
    BY <1>1 DEF HomeTypeOK, Places
  <2>2. /\ \A e \in DONIds, q \in Plugins, j \in Places :
              DigestOf(e, q, j)' <= currentVersion'
        /\ DigestsUnique'
    BY <1>1, <1>3, <2>1, SetCandidateEffect, OnePlaceKeepsUnique
  <2>3. HomeTypeOK'
    BY <1>1, <1>2, <1>3, SetCandidateEffect DEF HomeTypeOK
  <2> QED BY <2>2, <2>3 DEF HomeInv
<1>4. ASSUME NEW d \in DONIds, NEW p \in Plugins, RevokeCandidate(d, p) PROVE HomeInv'
  <2>1. 1 - activeIndex[d][p] \in Places
    BY <1>1 DEF HomeTypeOK, Places
  <2>2. NoDigest <= currentVersion'
    BY <1>1, <1>4, RevokeCandidateEffect DEF NoDigest
  <2>3. /\ \A e \in DONIds, q \in Plugins, j \in Places :
              DigestOf(e, q, j)' <= currentVersion'
        /\ DigestsUnique'
    BY <1>1, <1>4, <2>1, <2>2, RevokeCandidateEffect, OnePlaceKeepsUnique
  <2>4. HomeTypeOK'
    BY <1>1, <1>2, <1>4, RevokeCandidateEffect DEF HomeTypeOK
  <2> QED BY <2>3, <2>4 DEF HomeInv
<1>5. ASSUME NEW d \in DONIds, NEW p \in Plugins, PromoteCandidateAndRevokeActive(d, p)
      PROVE  HomeInv'
  <2>1. activeIndex[d][p] \in Places
    BY <1>1 DEF HomeTypeOK
  <2>2. NoDigest <= currentVersion'
    BY <1>1, <1>5, PromoteEffect DEF NoDigest
  <2>3. /\ \A e \in DONIds, q \in Plugins, j \in Places :
              DigestOf(e, q, j)' <= currentVersion'
        /\ DigestsUnique'
    BY <1>1, <1>5, <2>1, <2>2, PromoteEffect, OnePlaceKeepsUnique
  <2>4. HomeTypeOK'
    BY <1>1, <1>2, <1>5, PromoteEffect DEF HomeTypeOK
  <2> QED BY <2>3, <2>4 DEF HomeInv
<1>6. CASE UNCHANGED <<s_configs, activeIndex, currentVersion>>
  BY <1>2, <1>6 DEF HomeInv, HomeTypeOK, DigestsUnique, DigestOf
<1> QED BY <1>1, <1>3, <1>4, <1>5, <1>6, OneCallOrNone DEF Calls

LEMMA HomeInvHolds == HomeSpec => []HomeInv
<1>1. HomeInv /\ [HomeNext]_home => HomeInv'
  BY NextHomeInv
<1> QED BY <1>1, InitHomeInv, PTL DEF HomeSpec

\* Every variable of the home chain always holds a value of its type.
THEOREM HomeTypeCorrect == HomeSpec => []HomeTypeOK
<1>1. HomeInv => HomeTypeOK
  BY DEF HomeInv
<1> QED BY <1>1, HomeInvHolds, PTL

\* A digest is configured in one place of one plugin of one DON only
\* (_calculateConfigDigest, s_currentVersion).
THEOREM OneDigestOnePlace == HomeSpec => []DigestsUnique
<1>1. HomeInv => DigestsUnique
  BY DEF HomeInv
<1> QED BY <1>1, HomeInvHolds, PTL

LEMMA ConfiguredIs ==
    ASSUME HomeTypeOK, NEW d \in DONIds, NEW p \in Plugins
    PROVE  Configured(d, p) = {DigestOf(d, p, i) : i \in Places} \ {NoDigest}
<1>1. {activeIndex[d][p], 1 - activeIndex[d][p]} = Places
  BY DEF HomeTypeOK, Places
<1> QED BY <1>1 DEF Configured, ActiveDigest, CandidateDigest, DigestOf

\* What a step of the home chain changes: a place loses its digest, or gets the
\* next version.
LEMMA OnePlaceChanges ==
    ASSUME HomeTypeOK, [HomeNext]_home
    PROVE  /\ currentVersion' \in {currentVersion, currentVersion + 1}
           /\ \E d \in DONIds \cup {0} :
                 \A e \in DONIds, q \in Plugins, j \in Places :
                    \/ DigestOf(e, q, j)' = DigestOf(e, q, j)
                    \/ DigestOf(e, q, j)' = NoDigest
                    \/ /\ e = d
                       /\ DigestOf(e, q, j)' = currentVersion + 1
                       /\ currentVersion' = currentVersion + 1
<1>1. CASE UNCHANGED <<s_configs, activeIndex, currentVersion>>
  BY <1>1 DEF DigestOf
<1>2. ASSUME NEW d \in DONIds, NEW p \in Plugins, Calls(d, p)
      PROVE  /\ currentVersion' \in {currentVersion, currentVersion + 1}
             /\ \A e \in DONIds, q \in Plugins, j \in Places :
                    \/ DigestOf(e, q, j)' = DigestOf(e, q, j)
                    \/ DigestOf(e, q, j)' = NoDigest
                    \/ /\ e = d
                       /\ DigestOf(e, q, j)' = currentVersion + 1
                       /\ currentVersion' = currentVersion + 1
  <2>1. CASE SetCandidate(d, p)
    BY <2>1, SetCandidateEffect DEF OnlyPlace
  <2>2. CASE RevokeCandidate(d, p)
    BY <2>2, RevokeCandidateEffect DEF OnlyPlace
  <2>3. CASE PromoteCandidateAndRevokeActive(d, p)
    BY <2>3, PromoteEffect DEF OnlyPlace
  <2> QED BY <1>2, <2>1, <2>2, <2>3 DEF Calls
<1> QED BY <1>1, <1>2, OneCallOrNone

LEMMA NewDigestsAreNext ==
    ASSUME HomeInv, HomeInv', [HomeNext]_home, NEW d \in DONIds, NEW p \in Plugins,
           NEW digest \in Configured(d, p)' \ Configured(d, p)
    PROVE  digest > currentVersion
<1>1. HomeTypeOK /\ HomeTypeOK' /\ currentVersion \in Nat
  BY DEF HomeInv, HomeTypeOK
<1>2. /\ Configured(d, p) = {DigestOf(d, p, i) : i \in Places} \ {NoDigest}
      /\ Configured(d, p)' = {DigestOf(d, p, i)' : i \in Places} \ {NoDigest}
  <2>1. HomeTypeOK => Configured(d, p) = {DigestOf(d, p, i) : i \in Places} \ {NoDigest}
    BY ConfiguredIs
  <2>2. HomeTypeOK' => Configured(d, p)' = {DigestOf(d, p, i)' : i \in Places} \ {NoDigest}
    <3>1. HomeTypeOK' => {activeIndex'[d][p], 1 - activeIndex'[d][p]} = Places
      BY DEF HomeTypeOK, Places
    <3> QED BY <3>1 DEF Configured, ActiveDigest, CandidateDigest, DigestOf
  <2> QED BY <1>1, <2>1, <2>2
<1>3. PICK i \in Places : digest = DigestOf(d, p, i)' /\ digest # NoDigest
  BY <1>2
<1>4. digest # DigestOf(d, p, i)
  BY <1>2, <1>3
<1>5. digest = currentVersion + 1
  BY <1>1, <1>3, <1>4, OnePlaceChanges
<1> QED BY <1>1, <1>5

\* A digest that is configured anew was never configured before
\* (_setCandidate increments s_currentVersion).
THEOREM NoDigestReturns == HomeSpec => DigestsNeverReturn
<1> DEFINE Step ==
      \A d \in DONIds, p \in Plugins :
          \A digest \in Configured(d, p)' \ Configured(d, p) : digest > currentVersion
<1>1. HomeInv /\ HomeInv' /\ [HomeNext]_home => [Step]_home
  BY NewDigestsAreNext
<1> QED BY <1>1, HomeInvHolds, PTL DEF HomeSpec, DigestsNeverReturn

\* A call moves the plugin it is for along an arrow, or leaves its state.
LEMMA CallsFollowArrows ==
    ASSUME HomeInv, HomeInv', NEW d \in DONIds, NEW p \in Plugins, Calls(d, p)
    PROVE  \/ ConfigState(d, p)' = ConfigState(d, p)
           \/ <<ConfigState(d, p), ConfigState(d, p)'>> \in
                 Diagram!SetCandidate \cup Diagram!RevokeCandidate \cup Diagram!Promote
<1> DEFINE i == activeIndex[d][p]
<1>1. HomeTypeOK /\ i \in Places /\ 1 - i \in Places /\ i # 1 - i /\ 1 - (1 - i) = i
  BY DEF HomeInv, HomeTypeOK, Places
<1>2. CASE SetCandidate(d, p)
  <2>1. /\ DigestOf(d, p, 1 - i)' = currentVersion + 1
        /\ DigestOf(d, p, i)' = DigestOf(d, p, i)
        /\ activeIndex' = activeIndex
    BY <1>1, <1>2, SetCandidateEffect DEF OnlyPlace
  <2>2. currentVersion + 1 # NoDigest
    BY DEF HomeInv, HomeTypeOK, NoDigest
  <2> QED BY <2>1, <2>2
          DEF ConfigState, ActiveDigest, CandidateDigest, DigestOf, Diagram!SetCandidate
<1>3. CASE RevokeCandidate(d, p)
  <2>1. /\ DigestOf(d, p, 1 - i)' = NoDigest
        /\ DigestOf(d, p, i)' = DigestOf(d, p, i)
        /\ activeIndex' = activeIndex
        /\ DigestOf(d, p, 1 - i) # NoDigest
    BY <1>1, <1>3, RevokeCandidateEffect DEF OnlyPlace
  <2> QED BY <2>1
          DEF ConfigState, ActiveDigest, CandidateDigest, DigestOf, Diagram!RevokeCandidate
<1>4. CASE PromoteCandidateAndRevokeActive(d, p)
  <2>1. /\ s_configs'[d][p][i] = NoDigest
        /\ s_configs'[d][p][1 - i] = s_configs[d][p][1 - i]
        /\ activeIndex'[d][p] = 1 - i
        /\ s_configs[d][p][i] # NoDigest \/ s_configs[d][p][1 - i] # NoDigest
    BY <1>1, <1>4, PromoteEffect
    DEF OnlyPlace, OnlyIndex, Configured, ActiveDigest, CandidateDigest, DigestOf
  <2>2. /\ ActiveDigest(d, p)' = CandidateDigest(d, p)
        /\ CandidateDigest(d, p)' = NoDigest
        /\ ActiveDigest(d, p) # NoDigest \/ CandidateDigest(d, p) # NoDigest
    BY <1>1, <2>1 DEF ActiveDigest, CandidateDigest
  <2> QED BY <2>2 DEF ConfigState, Diagram!Promote
<1> QED BY <1>2, <1>3, <1>4 DEF Calls

\* A call leaves the states of all others.
LEMMA CallsLeaveOthers ==
    ASSUME HomeInv, HomeInv', NEW d \in DONIds, NEW p \in Plugins, Calls(d, p),
           NEW e \in DONIds, NEW q \in Plugins, ~(e = d /\ q = p)
    PROVE  ConfigState(e, q)' = ConfigState(e, q)
<1>1. HomeTypeOK /\ activeIndex[e][q] \in Places /\ 1 - activeIndex[e][q] \in Places
  BY DEF HomeInv, HomeTypeOK, Places
<1>2. \A i \in Places : DigestOf(e, q, i)' = DigestOf(e, q, i)
  BY <1>1, SetCandidateEffect, RevokeCandidateEffect, PromoteEffect DEF Calls, OnlyPlace
<1>3. activeIndex'[e][q] = activeIndex[e][q]
  BY <1>1, SetCandidateEffect, RevokeCandidateEffect, PromoteEffect DEF Calls, OnlyIndex
<1> QED BY <1>1, <1>2, <1>3 DEF ConfigState, ActiveDigest, CandidateDigest, DigestOf

\* CCIPHome, with its two places and an index, implements the states its
\* comment draws.
THEOREM HomeFollowsDiagram == HomeSpec => FollowsDiagram
<1> DEFINE state == [k \in DONIds \X Plugins |-> ConfigState(k[1], k[2])]
<1>1. HomeInit => Diagram!Init
  <2> SUFFICES ASSUME HomeInit, NEW d \in DONIds, NEW p \in Plugins
               PROVE  ConfigState(d, p) = "Init"
    BY DEF Diagram!Init
  <2> QED BY DEF HomeInit, ConfigState, ActiveDigest, CandidateDigest, Places
<1>2. HomeInv /\ HomeInv' /\ [HomeNext]_home => [Diagram!Next]_state
  <2> SUFFICES ASSUME HomeInv, HomeInv', [HomeNext]_home PROVE [Diagram!Next]_state
    OBVIOUS
  <2>1. HomeTypeOK
    BY DEF HomeInv
  <2>2. CASE UNCHANGED <<s_configs, activeIndex, currentVersion>>
    <3>1. state' = state
      BY <2>2 DEF ConfigState, ActiveDigest, CandidateDigest
    <3> QED BY <3>1
  <2>3. ASSUME NEW d \in DONIds, NEW p \in Plugins, Calls(d, p)
        PROVE  [Diagram!Next]_state
    <3>1. \A e \in DONIds, q \in Plugins :
             ~(e = d /\ q = p) => ConfigState(e, q)' = ConfigState(e, q)
      BY <2>3, CallsLeaveOthers
    <3>2. CASE ConfigState(d, p)' = ConfigState(d, p)
      <4>1. \A e \in DONIds, q \in Plugins : ConfigState(e, q)' = ConfigState(e, q)
        BY <3>1, <3>2
      <4>2. state' = state
        BY <4>1
      <4> QED BY <4>2
    <3>3. CASE <<ConfigState(d, p), ConfigState(d, p)'>> \in
                   Diagram!SetCandidate \cup Diagram!RevokeCandidate \cup Diagram!Promote
      <4> DEFINE k == <<d, p>>
      <4>1. k \in DONIds \X Plugins
        OBVIOUS
      <4>2. state[k] = ConfigState(d, p) /\ state'[k] = ConfigState(d, p)'
        BY <4>1
      <4>3. ASSUME NEW other \in (DONIds \X Plugins) \ {k} PROVE state'[other] = state[other]
        BY <3>1
      <4> QED BY <3>3, <4>1, <4>2, <4>3 DEF Diagram!Next
    <3> QED BY <2>3, <3>2, <3>3, CallsFollowArrows
  <2> QED BY <2>1, <2>2, <2>3, OneCallOrNone
<1> QED BY <1>1, <1>2, HomeInvHolds, PTL DEF HomeSpec, FollowsDiagram, Diagram!Spec

-----------------------------------------------------------------------------
(* The launcher: its oracles and the digests it knows. *)

\* The ids that were given to DONs.
Given == 1..(nextDONId - 1)

\* A DON that stands and is not in the registry's state the launcher was given
\* last was added after that state was read.
Listed(d) == d \in DOMAIN dons => d \in DOMAIN latestState

\* What a tick may have left to do.
WorkOK(work) ==
    /\ DOMAIN work = {"removed", "added", "updated"}
    /\ work.removed \subseteq DOMAIN regState \ DOMAIN dons
    /\ DOMAIN work.added \subseteq Given \ DOMAIN regState
    /\ DOMAIN work.updated \subseteq DOMAIN regState \ work.removed
    /\ \A d \in DOMAIN work.added : Listed(d)

DonsInv ==
    /\ DOMAIN dons \subseteq Given
    /\ stored # None => DOMAIN stored \subseteq Given
    /\ latestState # None => DOMAIN latestState \subseteq Given
    /\ DOMAIN regState \subseteq Given
    /\ DOMAIN instances = DOMAIN regState
    /\ \A d \in DOMAIN regState : Listed(d)
    /\ tick # None => WorkOK(tick)
    /\ ~synced => latestState = None /\ DOMAIN regState = {} /\ tick = None

\* The digests of a DON: those at its places on the home chain, those its
\* instances hold, and those that were read for it.
AtHome(d) == {DigestOf(d, p, i) : p \in Plugins, i \in Places} \ {NoDigest}
Held(d) == IF d \in DOMAIN instances THEN DOMAIN instances[d] ELSE {}
ReadFor(d) == IF reading # None /\ reading.don = d THEN reading.commit ELSE {}
KnownTo(d) == (AtHome(d) \cup Held(d)) \cup ReadFor(d)

\* No digest is known to two DONs.  What is read of a DON's commit plugin has
\* every digest of it that the instances hold and that still stands.
DigestInv ==
    /\ \A d \in DONIds : KnownTo(d) \subseteq 1..currentVersion
    /\ \A d, e \in DONIds : d # e => KnownTo(d) \cap KnownTo(e) = {}
    /\ reading # None =>
          /\ reading.don \in DONIds
          /\ Held(reading.don) \cap Configured(reading.don, "commit") \subseteq reading.commit

\* While no oracle has failed, all oracles run and are in an instance.
QuietInv ==
    /\ orphans \in [Digests -> Nat]
    /\ faults \in Nat /\ restarts \in Nat
    /\ faults = 0 =>
          /\ \A x \in Digests : orphans[x] = 0
          /\ \A d \in DOMAIN instances : \A x \in DOMAIN instances[d] : instances[d][x] = TRUE

LaunchInv == HomeInv /\ DonsInv /\ DigestInv /\ QuietInv

LEMMA GivenTypes ==
    ASSUME HomeTypeOK
    PROVE  nextDONId \in Nat \ {0} /\ Given \subseteq DONIds /\ DONIds \subseteq Nat
BY CCIPHomeAssumption DEF HomeTypeOK, Given, DONIds

\* Ids are given in their order, and never again.
LEMMA GivenGrows ==
    ASSUME HomeTypeOK, HomeTypeOK', [HomeNext]_home, DOMAIN dons \subseteq Given
    PROVE  /\ Given \subseteq Given'
           /\ DOMAIN dons' \subseteq Given'
           /\ DOMAIN dons' \cap Given \subseteq DOMAIN dons
<1>1. /\ \/ nextDONId' = nextDONId
         \/ nextDONId' = nextDONId + 1
      /\ \A d \in DOMAIN dons' : d \in DOMAIN dons \/ (d = nextDONId /\ nextDONId' = nextDONId + 1)
  <2>1. ASSUME NEW p \in Plugins, NEW member \in Memberships, AddDON(p, member)
        PROVE  /\ nextDONId' = nextDONId + 1
               /\ DOMAIN dons' = DOMAIN dons \cup {nextDONId}
    BY <2>1 DEF AddDON
  <2>2. ASSUME NEW d \in DONIds, NEW p \in Plugins, NEW member \in Memberships,
               UpdateDON(d, p, member)
        PROVE  nextDONId' = nextDONId /\ DOMAIN dons' = DOMAIN dons
    BY <2>2 DEF UpdateDON
  <2>3. ASSUME NEW d \in DONIds, RemoveDON(d)
        PROVE  nextDONId' = nextDONId /\ DOMAIN dons' \subseteq DOMAIN dons
    BY <2>3 DEF RemoveDON
  <2>4. CASE UNCHANGED home
    BY <2>4 DEF home
  <2> QED BY <2>1, <2>2, <2>3, <2>4 DEF HomeNext
<1>2. nextDONId \in Nat \ {0} /\ nextDONId' \in Nat \ {0}
  BY GivenTypes DEF HomeTypeOK
<1>3. ASSUME NEW d \in Given PROVE d \in Given' /\ d # nextDONId
  <2>1. ASSUME NEW a \in Nat \ {0}, NEW b \in Nat \ {0}, b \in {a, a + 1}, NEW e \in 1..(a - 1)
        PROVE  e \in 1..(b - 1) /\ e # a
    BY <2>1
  <2>2. nextDONId' \in {nextDONId, nextDONId + 1}
    BY <1>1
  <2> QED BY <1>2, <2>1, <2>2 DEF Given
<1>4. nextDONId' = nextDONId + 1 => nextDONId \in Given'
  BY <1>2 DEF Given
<1> QED BY <1>1, <1>3, <1>4

\* A step that is not the home chain's.
LEMMA HomeStands ==
    ASSUME UNCHANGED home
    PROVE  /\ UNCHANGED <<dons, nextDONId, s_configs, activeIndex, currentVersion>>
           /\ Given' = Given
           /\ \A d : AtHome(d)' = AtHome(d)
           /\ \A d, p : Configured(d, p)' = Configured(d, p)
           /\ HomeInv => HomeInv'
BY DEF home, Given, AtHome, Configured, ActiveDigest, CandidateDigest, HomeInv, HomeTypeOK,
       DigestOf, DigestsUnique

LEMMA InitDons ==
    ASSUME Init
    PROVE  DonsInv
<1>1. DOMAIN dons = {} /\ DOMAIN regState = {} /\ DOMAIN instances = {}
  BY DEF Init, HomeInit
<1> QED BY <1>1 DEF Init, DonsInv

LEMMA HomeKeepsDons ==
    ASSUME HomeInv, HomeInv', DonsInv, HomeChanges
    PROVE  DonsInv'
<1>1. /\ UNCHANGED <<synced, stored, latestState, regState, instances, tick>>
      /\ [HomeNext]_home
  BY DEF HomeChanges, syncer, launcher
<1>2. /\ Given \subseteq Given' /\ DOMAIN dons' \subseteq Given'
      /\ DOMAIN dons' \cap Given \subseteq DOMAIN dons
  BY <1>1, GivenGrows DEF HomeInv, DonsInv
<1>3. ASSUME tick # None, WorkOK(tick) PROVE WorkOK(tick)'
  BY <1>1, <1>2, <1>3 DEF WorkOK, Listed, DonsInv
<1> QED BY <1>1, <1>2, <1>3 DEF DonsInv, Listed

LEMMA SyncKeepsDons ==
    ASSUME DonsInv, Sync
    PROVE  DonsInv'
<1>1. UNCHANGED <<dons, regState, instances, tick>> /\ Given' = Given /\ synced'
  BY HomeStands DEF Sync
<1>2. CASE ~synced /\ stored # None /\ latestState' = stored /\ UNCHANGED stored
  BY <1>1, <1>2 DEF DonsInv
<1>3. CASE /\ latestState' = dons
           /\ stored' \in IF restarts < bound.restarts THEN {stored, dons} ELSE {None}
  <2>1. \A d : Listed(d)'
    BY <1>1, <1>3 DEF Listed
  <2>2. WorkOK(tick) => WorkOK(tick)'
    BY <1>1, <2>1 DEF WorkOK
  <2>3. stored' # None => DOMAIN stored' \subseteq Given'
    BY <1>1, <1>3 DEF DonsInv
  <2> QED BY <1>1, <1>3, <2>1, <2>2, <2>3 DEF DonsInv
<1> QED BY <1>2, <1>3 DEF Sync

LEMMA LeftIs ==
    ASSUME NEW work, Left(work) # None
    PROVE  Left(work) = work
BY DEF Left

LEMMA TickKeepsDons ==
    ASSUME DonsInv, Tick
    PROVE  DonsInv'
<1> DEFINE work == Diff(regState, latestState)
<1>1. /\ UNCHANGED <<dons, synced, stored, latestState, regState, instances>>
      /\ Given' = Given /\ latestState # None /\ tick' = Left(work)
  BY HomeStands DEF Tick, syncer
<1>2. /\ DOMAIN work = {"removed", "added", "updated"}
      /\ work.removed = DOMAIN regState \ DOMAIN latestState
      /\ DOMAIN work.added = DOMAIN latestState \ DOMAIN regState
      /\ DOMAIN work.updated \subseteq DOMAIN regState \cap DOMAIN latestState
  BY DEF Diff, Restrict, Updated
<1> HIDE DEF work
<1>3. WorkOK(work)
  BY <1>1, <1>2 DEF WorkOK, Listed, DonsInv
<1>4. tick' # None => WorkOK(tick)'
  BY <1>1, <1>3, LeftIs DEF WorkOK, Listed
<1> QED BY <1>1, <1>4 DEF DonsInv, Listed

\* What is left of a tick when a DON is done or its kind is given up.
Smaller(t, u) ==
    /\ DOMAIN t = DOMAIN u
    /\ t.removed = u.removed
    /\ DOMAIN t.added \subseteq DOMAIN u.added
    /\ DOMAIN t.updated \subseteq DOMAIN u.updated

LEMMA DoneSmaller ==
    ASSUME WorkOK(tick), NEW kind \in Kinds, NEW d, Done(kind, d), tick' # None
    PROVE  Smaller(tick', tick) /\ d \notin DOMAIN tick'[kind]
<1> DEFINE rest == Restrict(tick[kind], DOMAIN tick[kind] \ {d})
<1>1. DOMAIN rest = DOMAIN tick[kind] \ {d}
  BY DEF Restrict
<1>2. tick' = [tick EXCEPT ![kind] = rest]
  BY LeftIs DEF Done
<1> HIDE DEF rest
<1> QED BY <1>1, <1>2 DEF WorkOK, Kinds, Smaller

LEMMA GivenUpSmaller ==
    ASSUME WorkOK(tick), NEW kind \in Kinds, GivenUp(kind), tick' # None
    PROVE  Smaller(tick', tick) /\ DOMAIN tick'[kind] = {}
<1>1. tick' = [tick EXCEPT ![kind] = <<>>]
  BY LeftIs DEF GivenUp
<1>2. DOMAIN <<>> = {}
  OBVIOUS
<1> QED BY <1>1, <1>2 DEF WorkOK, Kinds, Smaller

\* A step of the tick that leaves what runs.
LEMMA SmallerKeepsDons ==
    ASSUME DonsInv, tick # None, tick' # None => Smaller(tick', tick),
           UNCHANGED <<home, syncer, latestState>>,
           DOMAIN regState' = DOMAIN regState, DOMAIN instances' = DOMAIN instances
    PROVE  DonsInv'
<1>1. UNCHANGED <<dons, synced, stored, latestState>> /\ Given' = Given
  BY HomeStands DEF syncer
<1>2. tick' # None => WorkOK(tick)'
  BY <1>1 DEF WorkOK, Listed, Smaller, DonsInv
<1> QED BY <1>1, <1>2 DEF DonsInv, Listed

LEMMA RemovedKeepsDons ==
    ASSUME DonsInv, NEW d, ProcessRemoved(d)
    PROVE  DonsInv'
<1>1. UNCHANGED <<dons, synced, stored, latestState>> /\ Given' = Given
  BY HomeStands DEF ProcessRemoved, syncer
<1>2. tick # None /\ d \in tick.removed /\ WorkOK(tick) /\ synced
  BY DEF ProcessRemoved, Removing, DonsInv
<1>3. CASE /\ instances' = Restrict(instances, DOMAIN instances \ {d})
           /\ regState' = Restrict(regState, DOMAIN regState \ {d})
           /\ tick' = Left([tick EXCEPT !.removed = @ \ {d}])
  <2>1. /\ DOMAIN instances' = DOMAIN instances \ {d}
        /\ DOMAIN regState' = DOMAIN regState \ {d}
    BY <1>3 DEF Restrict
  <2>2. tick' # None => tick' = [tick EXCEPT !.removed = tick.removed \ {d}]
    BY <1>3, LeftIs
  <2>3. tick' # None => WorkOK(tick)'
    BY <1>1, <1>2, <2>1, <2>2 DEF WorkOK, Listed
  <2> QED BY <1>1, <1>2, <2>1, <2>3 DEF DonsInv, Listed
<1>4. CASE /\ instances' = [instances EXCEPT ![d] = NoneOpen(DOMAIN instances[d])]
           /\ tick' = Left([tick EXCEPT !.removed = {}])
           /\ UNCHANGED regState
  <2>1. DOMAIN instances' = DOMAIN instances
    BY <1>4
  <2>2. tick' # None => tick' = [tick EXCEPT !.removed = {}]
    BY <1>4, LeftIs
  <2>3. tick' # None => WorkOK(tick)'
    BY <1>1, <1>2, <1>4, <2>2 DEF WorkOK, Listed
  <2> QED BY <1>1, <1>2, <1>4, <2>1, <2>3 DEF DonsInv, Listed
<1> QED BY <1>3, <1>4 DEF ProcessRemoved

\* What a DON that is added or updated has to do with what runs.
LEMMA ProcessedDons ==
    ASSUME DonsInv, NEW kind \in Kinds, NEW d, Processing(kind, d)
    PROVE  /\ tick # None /\ WorkOK(tick) /\ synced
           /\ kind = "added" => d \in Given \ DOMAIN regState /\ Listed(d)
           /\ kind = "updated" => d \in DOMAIN regState
BY DEF Processing, DonsInv, WorkOK

LEMMA AddedKeepsDons ==
    ASSUME DonsInv, NEW d, ProcessAdded(d)
    PROVE  DonsInv'
<1>1. UNCHANGED <<dons, synced, stored, latestState>> /\ Given' = Given
  BY HomeStands DEF ProcessAdded, syncer
<1>2. /\ tick # None /\ WorkOK(tick) /\ synced
      /\ d \in Given \ DOMAIN regState /\ Listed(d)
  BY ProcessedDons DEF ProcessAdded, Kinds
<1>3. CASE Done("added", d) /\ UNCHANGED <<instances, regState>>
  BY <1>2, <1>3, DoneSmaller, SmallerKeepsDons DEF ProcessAdded, Kinds
<1>4. CASE GivenUp("added") /\ UNCHANGED <<instances, regState>>
  BY <1>2, <1>4, GivenUpSmaller, SmallerKeepsDons DEF ProcessAdded, Kinds
<1>5. CASE /\ DOMAIN instances' = DOMAIN instances \cup {d}
           /\ DOMAIN regState' = DOMAIN regState \cup {d}
           /\ Done("added", d)
  <2>1. tick' # None => Smaller(tick', tick) /\ d \notin DOMAIN tick'.added
    BY <1>2, <1>5, DoneSmaller DEF Kinds
  <2>2. tick' # None => WorkOK(tick)'
    BY <1>1, <1>2, <1>5, <2>1 DEF WorkOK, Smaller, Listed
  <2> QED BY <1>1, <1>2, <1>5, <2>2 DEF DonsInv, Listed
<1> QED BY <1>3, <1>4, <1>5 DEF ProcessAdded

LEMMA UpdateKeepsDons ==
    ASSUME DonsInv, NEW d, ProcessUpdate(d)
    PROVE  DonsInv'
<1>1. tick # None /\ WorkOK(tick)
  BY ProcessedDons DEF ProcessUpdate, Kinds
<1>2. /\ DOMAIN instances' = DOMAIN instances
      /\ DOMAIN regState' = DOMAIN regState
  BY DEF ProcessUpdate, Transition, TransitionFails
<1>3. Done("updated", d) \/ GivenUp("updated")
  BY DEF ProcessUpdate, Transition, TransitionFails
<1>4. tick' # None => Smaller(tick', tick)
  BY <1>1, <1>3, DoneSmaller, GivenUpSmaller DEF Kinds
<1> QED BY <1>1, <1>2, <1>4, SmallerKeepsDons DEF ProcessUpdate

LEMMA FailedReadKeepsDons ==
    ASSUME DonsInv, NEW kind \in Kinds, ReadOrCreateFails(kind)
    PROVE  DonsInv'
<1>1. tick # None /\ WorkOK(tick)
  BY ProcessedDons DEF ReadOrCreateFails
<1>2. tick' # None => Smaller(tick', tick)
  BY <1>1, GivenUpSmaller DEF ReadOrCreateFails
<1> QED BY <1>1, <1>2, SmallerKeepsDons DEF ReadOrCreateFails

LEMMA NextDons ==
    ASSUME HomeInv, HomeInv', DonsInv, [Next]_vars
    PROVE  DonsInv'
<1>1. ASSUME UNCHANGED <<home, syncer, latestState, regState, instances, tick>>
      PROVE  DonsInv'
  BY <1>1, HomeStands DEF syncer, DonsInv, WorkOK, Listed
<1>2. ASSUME NEW kind \in Kinds, NEW d, ReadCommitConfigs(kind, d) PROVE DonsInv'
  BY <1>1, <1>2 DEF ReadCommitConfigs
<1>3. CASE Restart
  <2>1. UNCHANGED <<dons, stored>> /\ Given' = Given /\ latestState' = None /\ tick' = None
    BY <1>3, HomeStands DEF Restart
  <2>2. DOMAIN regState' = {} /\ DOMAIN instances' = {}
    BY <1>3 DEF Restart
  <2> QED BY <2>1, <2>2 DEF DonsInv
<1>4. CASE UNCHANGED vars
  BY <1>1, <1>4 DEF vars, launcher
<1> QED BY <1>2, <1>3, <1>4, HomeKeepsDons, SyncKeepsDons, TickKeepsDons, RemovedKeepsDons,
           AddedKeepsDons, UpdateKeepsDons, FailedReadKeepsDons DEF Next, Launcher

\* A step of the node that comes to know no digest but those its DON had.
LEMMA KnownStays ==
    ASSUME DigestInv, UNCHANGED home,
           \A d \in DONIds : Held(d)' \subseteq KnownTo(d) /\ ReadFor(d)' \subseteq KnownTo(d),
           reading' = None \/ (/\ UNCHANGED reading
                               /\ Held(reading.don)' \subseteq Held(reading.don))
    PROVE  DigestInv'
<1>1. /\ currentVersion' = currentVersion
      /\ \A d : AtHome(d)' = AtHome(d)
      /\ \A d, p : Configured(d, p)' = Configured(d, p)
  BY HomeStands
<1>2. \A d \in DONIds : KnownTo(d)' \subseteq KnownTo(d)
  BY <1>1 DEF KnownTo
<1>3. reading' # None =>
         /\ reading'.don \in DONIds
         /\ (Held(reading.don) \cap Configured(reading.don, "commit") \subseteq reading.commit)'
  BY <1>1 DEF DigestInv
<1> QED BY <1>1, <1>2, <1>3 DEF DigestInv

LEMMA InstancesKept ==
    ASSUME UNCHANGED <<instances, reading>>
    PROVE  /\ \A d : Held(d)' = Held(d) /\ ReadFor(d)' = ReadFor(d)
           /\ \A d : Open(d)' = Open(d)
BY DEF Held, ReadFor, Open

\* What is configured of a DON is at one of its places.
LEMMA ConfiguredAtHome ==
    ASSUME HomeTypeOK, NEW d \in DONIds, NEW p \in Plugins
    PROVE  Configured(d, p) \subseteq AtHome(d)
BY ConfiguredIs DEF AtHome

\* The configurations of a DON are known to it.
LEMMA ConfigsKnown ==
    ASSUME HomeTypeOK, reading # None, NEW d \in DONIds, reading.don = d
    PROVE  Configs \subseteq KnownTo(d)
<1>1. Configured(d, "exec") \subseteq AtHome(d)
  BY ConfiguredAtHome DEF Plugins
<1> QED BY <1>1 DEF Configs, KnownTo, ReadFor

\* What the steps that change instances do to what a DON holds.
LEMMA HeldAfter ==
    ASSUME DonsInv, NEW d, NEW e
    PROVE  /\ ProcessRemoved(d) => Held(e)' \subseteq Held(e)
           /\ ProcessAdded(d) \/ ProcessUpdate(d) =>
                 \/ Held(e)' \subseteq Held(e)
                 \/ e = d /\ Held(e)' = Configs
<1>1. ASSUME ProcessRemoved(d) PROVE Held(e)' \subseteq Held(e)
  <2>1. \/ instances' = Restrict(instances, DOMAIN instances \ {d})
        \/ instances' = [instances EXCEPT ![d] = NoneOpen(DOMAIN instances[d])]
    BY <1>1 DEF ProcessRemoved
  <2> QED BY <2>1 DEF Held, Restrict, NoneOpen
<1>2. ASSUME ProcessAdded(d)
      PROVE  Held(e)' \subseteq Held(e) \/ (e = d /\ Held(e)' = Configs)
  BY <1>2 DEF ProcessAdded, Held, AllOpen
<1>3. ASSUME ProcessUpdate(d)
      PROVE  Held(e)' \subseteq Held(e) \/ (e = d /\ Held(e)' = Configs)
  BY <1>3 DEF ProcessUpdate, Transition, TransitionFails, Held
<1> QED BY <1>1, <1>2, <1>3

LEMMA InitDigests ==
    ASSUME Init
    PROVE  DigestInv
<1>1. /\ DOMAIN instances = {} /\ reading = None /\ currentVersion = 0
      /\ \A d \in DONIds, p \in Plugins, i \in Places : DigestOf(d, p, i) = NoDigest
  BY DEF Init, HomeInit, DigestOf
<1>2. \A d \in DONIds : KnownTo(d) = {}
  BY <1>1 DEF KnownTo, AtHome, Held, ReadFor
<1> QED BY <1>1, <1>2 DEF DigestInv

LEMMA HomeKeepsDigests ==
    ASSUME HomeInv, HomeInv', DigestInv, HomeChanges
    PROVE  DigestInv'
<1>1. UNCHANGED <<instances, reading>> /\ [HomeNext]_home
  BY DEF HomeChanges, launcher
<1>2. HomeTypeOK /\ currentVersion \in Nat
  BY DEF HomeInv, HomeTypeOK
<1>3. PICK d \in DONIds \cup {0} :
         \A e \in DONIds, q \in Plugins, j \in Places :
            \/ DigestOf(e, q, j)' = DigestOf(e, q, j)
            \/ DigestOf(e, q, j)' = NoDigest
            \/ /\ e = d
               /\ DigestOf(e, q, j)' = currentVersion + 1
               /\ currentVersion' = currentVersion + 1
  BY <1>1, <1>2, OnePlaceChanges
<1>4. ASSUME NEW e \in DONIds, NEW x \in KnownTo(e)'
      PROVE  x \in KnownTo(e) \/ (e = d /\ x = currentVersion + 1 /\ x = currentVersion')
  <2>1. CASE x \in AtHome(e)'
    <3>1. PICK q \in Plugins, j \in Places : x = DigestOf(e, q, j)' /\ x # NoDigest
      BY <2>1 DEF AtHome
    <3>2. \/ x = DigestOf(e, q, j)
          \/ e = d /\ x = currentVersion + 1 /\ x = currentVersion'
      BY <1>3, <3>1
    <3> QED BY <3>1, <3>2 DEF AtHome, KnownTo
  <2>2. CASE x \in Held(e)' \cup ReadFor(e)'
    BY <1>1, <2>2, InstancesKept DEF KnownTo
  <2> QED BY <1>4, <2>1, <2>2 DEF KnownTo
<1>5. currentVersion' \in {currentVersion, currentVersion + 1}
  BY <1>1, <1>2, OnePlaceChanges
<1>6. ASSUME NEW e \in DONIds PROVE KnownTo(e)' \subseteq 1..currentVersion'
  <2>1. KnownTo(e) \subseteq 1..currentVersion
    BY DEF DigestInv
  <2> QED BY <1>2, <1>4, <1>5, <2>1
<1>7. ASSUME NEW e \in DONIds, NEW f \in DONIds, e # f
      PROVE  KnownTo(e)' \cap KnownTo(f)' = {}
  <2>1. /\ KnownTo(e) \cap KnownTo(f) = {}
        /\ currentVersion + 1 \notin KnownTo(e)
        /\ currentVersion + 1 \notin KnownTo(f)
    BY <1>2, <1>7 DEF DigestInv
  <2> QED BY <1>4, <1>7, <2>1
<1>8. ASSUME reading' # None
      PROVE  /\ reading'.don \in DONIds
             /\ (Held(reading.don) \cap Configured(reading.don, "commit") \subseteq reading.commit)'
  <2> DEFINE r == reading.don
  <2>1. /\ reading # None /\ reading' = reading /\ r \in DONIds
        /\ Held(r) \cap Configured(r, "commit") \subseteq reading.commit
    BY <1>1, <1>8 DEF DigestInv
  <2>2. \A x \in Held(r) : x \in Nat /\ x <= currentVersion
    BY <1>2, <2>1 DEF DigestInv, KnownTo
  <2>3. \A x \in Configured(r, "commit")' \ Configured(r, "commit") : x > currentVersion
    BY <1>1, <2>1, NewDigestsAreNext DEF Plugins
  <2>4. Held(r)' = Held(r)
    BY <1>1, InstancesKept
  <2>5. Held(r) \cap Configured(r, "commit")' \subseteq reading.commit
    BY <1>2, <2>1, <2>2, <2>3
  <2> QED BY <2>1, <2>4, <2>5 DEF Held, Configured, ActiveDigest, CandidateDigest
<1> QED BY <1>6, <1>7, <1>8 DEF DigestInv

LEMMA NextDigests ==
    ASSUME HomeInv, HomeInv', DonsInv, DigestInv, [Next]_vars
    PROVE  DigestInv'
<1>1. HomeTypeOK /\ Given \subseteq DONIds
  BY GivenTypes DEF HomeInv
<1>2. ASSUME UNCHANGED <<home, instances, reading>> PROVE DigestInv'
  BY <1>2, InstancesKept, KnownStays DEF KnownTo
<1>3. ASSUME UNCHANGED <<home, instances>>, reading' = None PROVE DigestInv'
  <2>1. \A d \in DONIds : Held(d)' \subseteq KnownTo(d) /\ ReadFor(d)' \subseteq KnownTo(d)
    BY <1>3 DEF Held, ReadFor, KnownTo
  <2> QED BY <1>3, <2>1, KnownStays
<1>4. ASSUME NEW d \in DONIds, ProcessRemoved(d) PROVE DigestInv'
  <2>1. UNCHANGED <<home, reading>>
    BY <1>4 DEF ProcessRemoved
  <2>2. \A e : Held(e)' \subseteq Held(e) /\ ReadFor(e)' = ReadFor(e)
    BY <1>4, <2>1, HeldAfter DEF ReadFor
  <2> QED BY <2>1, <2>2, KnownStays DEF KnownTo
<1>5. ASSUME NEW d \in DONIds, ProcessAdded(d) \/ ProcessUpdate(d) PROVE DigestInv'
  <2>1. UNCHANGED home /\ reading' = None /\ reading # None /\ reading.don = d
    BY <1>5 DEF ProcessAdded, ProcessUpdate
  <2>2. Configs \subseteq KnownTo(d)
    BY <1>1, <2>1, ConfigsKnown
  <2>3. \A e : Held(e)' \subseteq KnownTo(e) /\ ReadFor(e)' = {}
    BY <1>5, <2>1, <2>2, HeldAfter DEF ReadFor, KnownTo
  <2> QED BY <2>1, <2>3, KnownStays
<1>6. ASSUME NEW kind \in Kinds, NEW d \in DONIds, ReadCommitConfigs(kind, d) PROVE DigestInv'
  <2>1. /\ UNCHANGED <<home, instances>>
        /\ reading' = [don |-> d, commit |-> Configured(d, "commit")]
    BY <1>6 DEF ReadCommitConfigs
  <2>2. Configured(d, "commit") \subseteq AtHome(d)
    BY <1>1, ConfiguredAtHome DEF Plugins
  <2>3. /\ currentVersion' = currentVersion
        /\ \A e : AtHome(e)' = AtHome(e)
        /\ Configured(d, "commit")' = Configured(d, "commit")
    BY <2>1, HomeStands
  <2>4. ASSUME NEW e \in DONIds PROVE KnownTo(e)' \subseteq KnownTo(e)
    BY <2>1, <2>2, <2>3 DEF KnownTo, Held, ReadFor
  <2>5. reading'.don = d /\ reading'.commit = Configured(d, "commit")
    BY <2>1
  <2>6. (Held(reading.don) \cap Configured(reading.don, "commit") \subseteq reading.commit)'
    BY <2>3, <2>5
  <2> QED BY <2>3, <2>4, <2>5, <2>6 DEF DigestInv
<1>7. ASSUME NEW kind \in Kinds, ReadOrCreateFails(kind) PROVE DigestInv'
  BY <1>3, <1>7 DEF ReadOrCreateFails
<1>8. CASE Restart
  <2>1. UNCHANGED home /\ reading' = None /\ DOMAIN instances' = {}
    BY <1>8 DEF Restart
  <2>2. \A e : Held(e)' = {} /\ ReadFor(e)' = {}
    BY <2>1 DEF Held, ReadFor
  <2> QED BY <2>1, <2>2, KnownStays
<1>9. CASE Sync \/ Tick \/ UNCHANGED vars
  BY <1>2, <1>9 DEF Sync, Tick, vars, launcher
<1> QED BY <1>4, <1>5, <1>6, <1>7, <1>8, <1>9, HomeKeepsDigests DEF Next, Launcher

LEMMA InitQuiet ==
    ASSUME Init
    PROVE  QuietInv
BY DEF Init, QuietInv

LEMMA FaultCounts ==
    ASSUME QuietInv, Fault
    PROVE  faults' \in Nat /\ faults' # 0
BY DEF QuietInv, Fault

LEMMA OrphanedType ==
    ASSUME QuietInv, NEW digests
    PROVE  /\ Orphaned(digests) \in [Digests -> Nat]
           /\ digests = {} => Orphaned(digests) = orphans
BY DEF QuietInv, Orphaned

\* While no oracle has failed, closing oracles for the first time succeeds.
LEMMA QuietCloses ==
    ASSUME QuietInv, faults = 0, NEW d \in DOMAIN instances,
           NEW closing \in SUBSET DOMAIN instances[d]
    PROVE  ~MustFail(instances[d], closing)
BY DEF QuietInv, MustFail

LEMMA NextQuiet ==
    ASSUME DonsInv, QuietInv, [Next]_vars
    PROVE  QuietInv'
<1>1. ASSUME UNCHANGED <<instances, orphans, faults>>, restarts' \in Nat PROVE QuietInv'
  BY <1>1 DEF QuietInv
<1>2. ASSUME Fault, UNCHANGED restarts, orphans' \in [Digests -> Nat] PROVE QuietInv'
  BY <1>2, FaultCounts DEF QuietInv
<1>3. ASSUME NEW d, ProcessRemoved(d) PROVE QuietInv'
  <2>1. UNCHANGED <<orphans, restarts>>
    BY <1>3 DEF ProcessRemoved
  <2>2. d \in DOMAIN instances
    BY <1>3 DEF ProcessRemoved, Removing, DonsInv, WorkOK
  <2>3. CASE instances' = Restrict(instances, DOMAIN instances \ {d}) /\ UNCHANGED faults
    BY <2>1, <2>3 DEF QuietInv, Restrict
  <2>4. CASE /\ MustFail(instances[d], DOMAIN instances[d])
             /\ UNCHANGED faults
    <3>1. faults # 0
      BY <2>2, <2>4, QuietCloses
    <3> QED BY <2>1, <2>4, <3>1 DEF QuietInv
  <2>5. CASE Fault
    BY <1>2, <2>1, <2>5 DEF QuietInv
  <2> QED BY <1>3, <2>3, <2>4, <2>5 DEF ProcessRemoved
<1>4. ASSUME NEW d, ProcessAdded(d) PROVE QuietInv'
  <2>1. UNCHANGED restarts
    BY <1>4 DEF ProcessAdded
  <2>2. d \notin DOMAIN instances
    BY <1>4, ProcessedDons DEF ProcessAdded, DonsInv, Kinds
  <2>3. CASE UNCHANGED <<instances, orphans, faults>>
    BY <1>1, <2>1, <2>3 DEF QuietInv
  <2>4. CASE /\ instances' = [e \in DOMAIN instances \cup {d} |->
                                  IF e = d THEN AllOpen(Configs) ELSE instances[e]]
             /\ orphans' = Orphaned(Open(d))
             /\ UNCHANGED faults
    <3>1. Open(d) = {}
      BY <2>2 DEF Open
    <3>2. orphans' = orphans
      BY <2>4, <3>1, OrphanedType
    <3> QED BY <2>1, <2>4, <3>2 DEF QuietInv, AllOpen
  <2>5. CASE Fault /\ UNCHANGED orphans
    BY <1>2, <2>1, <2>5 DEF QuietInv
  <2> QED BY <1>4, <2>3, <2>4, <2>5 DEF ProcessAdded
<1>5. ASSUME NEW d, ProcessUpdate(d) PROVE QuietInv'
  <2>1. UNCHANGED restarts
    BY <1>5 DEF ProcessUpdate
  <2>2. d \in DOMAIN instances
    BY <1>5, ProcessedDons DEF ProcessUpdate, DonsInv, Kinds
  <2>3. CASE UNCHANGED <<instances, orphans, faults>>
    BY <1>1, <2>1, <2>3 DEF QuietInv
  <2>4. CASE Transition(d)
    <3>1. /\ UNCHANGED <<orphans, faults>>
          /\ instances' = [instances EXCEPT ![d] =
                 [x \in Configs |-> x \in DOMAIN instances[d] => instances[d][x]]]
      BY <2>4 DEF Transition
    <3> QED BY <2>1, <2>2, <3>1 DEF QuietInv
  <2>5. CASE TransitionFails(d)
    <3> DEFINE closing == DOMAIN instances[d] \ Configs
               opening == Configs \ DOMAIN instances[d]
    <3>1. PICK failing \in SUBSET opening :
             /\ IF failing = {} /\ MustFail(instances[d], closing)
                THEN UNCHANGED faults
                ELSE Fault /\ closing \cup failing # {}
             /\ orphans' = Orphaned(opening \ failing)
      BY <2>5 DEF TransitionFails
    <3>2. orphans' \in [Digests -> Nat]
      BY <3>1, OrphanedType
    <3>3. CASE Fault
      BY <1>2, <2>1, <3>2, <3>3
    <3>4. CASE MustFail(instances[d], closing) /\ UNCHANGED faults
      <4>1. faults # 0
        BY <2>2, <3>4, QuietCloses
      <4> QED BY <2>1, <3>2, <3>4, <4>1 DEF QuietInv
    <3> QED BY <3>1, <3>3, <3>4
  <2> QED BY <1>5, <2>3, <2>4, <2>5 DEF ProcessUpdate
<1>6. ASSUME NEW kind \in Kinds, NEW d, ReadCommitConfigs(kind, d) PROVE QuietInv'
  BY <1>1, <1>6 DEF ReadCommitConfigs, counts, QuietInv
<1>7. ASSUME NEW kind \in Kinds, ReadOrCreateFails(kind) PROVE QuietInv'
  BY <1>1, <1>7 DEF ReadOrCreateFails, QuietInv
<1>8. CASE Restart
  <2>1. UNCHANGED faults /\ restarts' = restarts + 1 /\ DOMAIN instances' = {}
        /\ orphans' = [x \in Digests |-> 0]
    BY <1>8 DEF Restart
  <2> QED BY <2>1 DEF QuietInv
<1>9. CASE HomeChanges \/ Sync \/ Tick \/ UNCHANGED vars
  BY <1>1, <1>9 DEF HomeChanges, Sync, Tick, vars, launcher, counts, QuietInv
<1> QED BY <1>3, <1>4, <1>5, <1>6, <1>7, <1>8, <1>9 DEF Next, Launcher

LEMMA LaunchInvHolds == Spec => []LaunchInv
<1>1. Init => LaunchInv
  BY InitHomeInv, InitDons, InitDigests, InitQuiet DEF Init, LaunchInv
<1>2. LaunchInv /\ [Next]_vars => LaunchInv'
  <2> SUFFICES ASSUME LaunchInv, [Next]_vars PROVE LaunchInv'
    OBVIOUS
  <2>1. [HomeNext]_home
    BY DEF Next, HomeChanges, Sync, Launcher, Tick, ProcessRemoved, ProcessAdded, ProcessUpdate,
           ReadCommitConfigs, ReadOrCreateFails, Restart, vars
  <2>2. HomeInv'
    BY <2>1, NextHomeInv DEF LaunchInv
  <2> QED BY <2>2, NextDons, NextDigests, NextQuiet DEF LaunchInv
<1> QED BY <1>1, <1>2, PTL DEF Spec

\* While no oracle has failed, no digest is served by two oracles of the node
\* (createDON, TransitionFrom, getConfigsForDon).
THEOREM NoTwoOracles == Spec => []OneOracleEach
<1>1. LaunchInv => OneOracleEach
  <2> SUFFICES ASSUME LaunchInv, faults = 0, NEW x \in Digests PROVE Runs(x) <= 1
    BY DEF OneOracleEach
  <2> DEFINE running == {d \in DONIds : x \in Open(d)}
  <2>1. \A d \in DONIds : Open(d) \subseteq KnownTo(d)
    BY DEF Open, KnownTo, Held
  <2>2. \A d, e \in running : d = e
    BY <2>1 DEF LaunchInv, DigestInv
  <2>3. CASE running = {}
    <3>1. Cardinality(running) = 0
      BY <2>3, FS_EmptySet
    <3> QED BY <3>1 DEF Runs, LaunchInv, QuietInv
  <2>4. CASE running # {}
    <3>1. PICK d \in running : running = {d}
      BY <2>2, <2>4
    <3>2. Cardinality(running) = 1
      BY <3>1, FS_Singleton
    <3> QED BY <3>2 DEF Runs, LaunchInv, QuietInv
  <2> QED BY <2>3, <2>4
<1> QED BY <1>1, LaunchInvHolds, PTL

\* What an update closes is configured no more: what the instances held and
\* stood when the configurations of the commit plugin were read is among them.
LEMMA UpdateClosesOld ==
    ASSUME LaunchInv, NEW d \in DONIds, ProcessUpdate(d), NEW x \in Open(d), x \notin Open(d)'
    PROVE  x \notin HomeConfigs(d)
<1>1. d \in DOMAIN instances /\ reading # None /\ reading.don = d
  BY ProcessedDons DEF ProcessUpdate, LaunchInv, DonsInv, Kinds
<1>2. x \in DOMAIN instances[d] /\ instances[d][x]
  BY <1>1 DEF Open
<1>3. x \notin Configs
  <2>1. CASE UNCHANGED instances
    BY <2>1 DEF Open
  <2>2. CASE Transition(d)
    <3>1. instances' = [instances EXCEPT ![d] =
                 [y \in Configs |-> y \in DOMAIN instances[d] => instances[d][y]]]
      BY <2>2 DEF Transition
    <3> QED BY <1>1, <1>2, <3>1 DEF Open
  <2>3. CASE TransitionFails(d)
    <3>1. instances' = [instances EXCEPT ![d] =
                 [y \in DOMAIN instances[d] |->
                     instances[d][y] /\ y \notin DOMAIN instances[d] \ Configs]]
      BY <2>3 DEF TransitionFails
    <3> QED BY <1>1, <1>2, <3>1 DEF Open
  <2> QED BY <2>1, <2>2, <2>3 DEF ProcessUpdate
<1>4. Held(d) \cap Configured(d, "commit") \subseteq reading.commit
  BY <1>1 DEF LaunchInv, DigestInv
<1> QED BY <1>1, <1>2, <1>3, <1>4 DEF Configs, HomeConfigs, Held

\* The oracle of a configuration that stands is not closed, but by a restart
\* (processRemoved, TransitionFrom).
THEOREM StandingConfigsKeepOracles == Spec => KeepsConfigured
<1> DEFINE Kept ==
      \A d \in DONIds :
          restarts' = restarts => (Open(d) \ Open(d)') \cap HomeConfigs(d) = {}
<1>1. LaunchInv /\ [Next]_vars => [Kept]_vars
  <2> SUFFICES ASSUME LaunchInv, Next, NEW d \in DONIds, restarts' = restarts
               PROVE  (Open(d) \ Open(d)') \cap HomeConfigs(d) = {}
    OBVIOUS
  <2>1. ASSUME UNCHANGED instances PROVE Open(d)' = Open(d)
    BY <2>1 DEF Open
  <2>2. ASSUME NEW e \in DONIds, ProcessRemoved(e)
        PROVE  (Open(d) \ Open(d)') \cap HomeConfigs(d) = {}
    <3>1. CASE d = e
      <4>1. d \notin DOMAIN dons
        BY <2>2, <3>1 DEF ProcessRemoved, Removing, LaunchInv, DonsInv, WorkOK
      <4> QED BY <4>1 DEF HomeConfigs
    <3>2. CASE d # e
      <4>1. \/ instances' = Restrict(instances, DOMAIN instances \ {e})
            \/ instances' = [instances EXCEPT ![e] = NoneOpen(DOMAIN instances[e])]
        BY <2>2 DEF ProcessRemoved
      <4> QED BY <3>2, <4>1 DEF Open, Restrict
    <3> QED BY <3>1, <3>2
  <2>3. ASSUME NEW e \in DONIds, ProcessAdded(e)
        PROVE  (Open(d) \ Open(d)') \cap HomeConfigs(d) = {}
    <3>1. e \notin DOMAIN instances
      BY <2>3, ProcessedDons DEF ProcessAdded, LaunchInv, DonsInv, Kinds
    <3>2. \/ UNCHANGED instances
          \/ instances' = [f \in DOMAIN instances \cup {e} |->
                               IF f = e THEN AllOpen(Configs) ELSE instances[f]]
      BY <2>3 DEF ProcessAdded
    <3> QED BY <3>1, <3>2 DEF Open
  <2>4. ASSUME NEW e \in DONIds, ProcessUpdate(e)
        PROVE  (Open(d) \ Open(d)') \cap HomeConfigs(d) = {}
    <3>1. CASE d = e
      BY <2>4, <3>1, UpdateClosesOld
    <3>2. CASE d # e
      <4>1. \A f : f # e => (f \in DOMAIN instances' <=> f \in DOMAIN instances)
                            /\ (f \in DOMAIN instances => instances'[f] = instances[f])
        BY <2>4 DEF ProcessUpdate, Transition, TransitionFails
      <4> QED BY <3>2, <4>1 DEF Open
    <3> QED BY <3>1, <3>2
  <2>5. ASSUME NEW kind \in Kinds, NEW e \in DONIds, ReadCommitConfigs(kind, e)
        PROVE  UNCHANGED instances
    BY <2>5 DEF ReadCommitConfigs
  <2>6. ASSUME NEW kind \in Kinds, ReadOrCreateFails(kind) PROVE UNCHANGED instances
    BY <2>6 DEF ReadOrCreateFails
  <2>7. ~Restart
    BY DEF Restart, LaunchInv, QuietInv
  <2>8. HomeChanges \/ Sync \/ Tick => UNCHANGED instances
    BY DEF HomeChanges, Sync, Tick, launcher
  <2> QED BY <2>1, <2>2, <2>3, <2>4, <2>5, <2>6, <2>7, <2>8 DEF Next, Launcher
<1> QED BY <1>1, LaunchInvHolds, PTL DEF Spec, KeepsConfigured

-----------------------------------------------------------------------------
(* The commit plugin. *)

\* What a round may agree on and a node may sign, apart from whether the
\* messages are there.
Fits(interval) ==
    /\ interval.min <= interval.max
    /\ interval.max - interval.min < RangeLimit

CommitInv ==
    /\ sent \in 0..MaxSent
    /\ roots \in Seq(Interval)
    /\ agreed \in AnyInterval \cup {NoRound}
    /\ agreed \notin {NoRound, NoInterval} => Fits(agreed)
    /\ attested \subseteq AnyInterval
    /\ \A interval \in attested : Fits(interval) /\ interval.max <= sent

\* The next sequence number the store expects is one.
LEMMA ExpectedNextType ==
    ASSUME roots \in Seq(Interval)
    PROVE  ExpectedNext \in Nat \ {0}
<1>1. CASE roots = <<>>
  BY <1>1 DEF ExpectedNext, NextAfter
<1>2. CASE roots # <<>>
  <2>1. Len(roots) \in Nat \ {0} /\ roots[Len(roots)] \in Interval
    BY <1>2
  <2> QED BY <2>1, CCIPDonAssumption DEF ExpectedNext, NextAfter, Interval, Messages
<1> QED BY <1>1, <1>2

\* Cutting an interval down leaves one that fits into a tree, or none.
LEMMA TruncateFits ==
    ASSUME NEW interval \in AnyInterval
    PROVE  /\ Truncate(interval) \in AnyInterval
           /\ Truncate(interval) # NoInterval => Fits(Truncate(interval))
<1>1. interval.min \in 0..MaxSent + 1 /\ interval.max \in 0..MaxSent + 1
  BY DEF AnyInterval
<1>2. NoInterval \in AnyInterval
  BY CCIPDonAssumption DEF NoInterval, AnyInterval
<1>3. CASE interval.min = 0 \/ interval.max < interval.min
  BY <1>2, <1>3 DEF Truncate
<1>4. CASE /\ ~(interval.min = 0 \/ interval.max < interval.min)
           /\ interval.max - interval.min < RangeLimit
  BY <1>1, <1>4 DEF Truncate, Fits
<1>5. CASE /\ ~(interval.min = 0 \/ interval.max < interval.min)
           /\ ~(interval.max - interval.min < RangeLimit)
  <2>1. Truncate(interval) = [interval EXCEPT !.max = interval.min + RangeLimit - 1]
    BY <1>5 DEF Truncate
  <2>2. interval.min + RangeLimit - 1 \in 0..MaxSent + 1
    BY <1>1, <1>5, CCIPDonAssumption
  <2>3. Truncate(interval) = [min |-> interval.min, max |-> interval.min + RangeLimit - 1]
    BY <2>1 DEF AnyInterval
  <2> QED BY <1>1, <2>2, <2>3, CCIPDonAssumption DEF AnyInterval, Fits
<1> QED BY <1>3, <1>4, <1>5

\* More than F signatures cannot all be of faulty nodes.
LEMMA FaultyDoNotAttest ==
    ASSUME NEW signers PROVE ~Attests(signers \cap Faulty)
<1>1. IsFiniteSet(Faulty)
  BY CCIPDonAssumption, FS_Subset
<1>2. Cardinality(signers \cap Faulty) <= Cardinality(Faulty)
  BY <1>1, FS_Subset
<1>3. Cardinality(signers \cap Faulty) \in Nat /\ Cardinality(Faulty) \in Nat
  BY <1>1, FS_Subset, FS_CardinalityType
<1> QED BY <1>2, <1>3, CCIPDonAssumption DEF Attests

LEMMA CommitInvHolds == CommitSpec => []CommitInv
<1>1. CommitInit => CommitInv
  BY CCIPDonAssumption DEF CommitInit, StoreInit, CommitInv
<1>2. CommitInv /\ [CommitNext]_cvars => CommitInv'
  <2> SUFFICES ASSUME CommitInv, [CommitNext]_cvars PROVE CommitInv'
    OBVIOUS
  <2> USE DEF CommitInv
  <2>1. CASE Send /\ UNCHANGED commitVars
    BY <2>1, CCIPDonAssumption DEF Send, commitVars, AnyInterval
  <2>2. ASSUME NEW keepUp \in BOOLEAN, CommitObserve(keepUp) PROVE CommitInv'
    <3>1. PICK interval \in AnyInterval : agreed' = Truncate(interval)
      BY <2>2 DEF CommitObserve, AgreedIntervals
    <3>2. agreed' \in AnyInterval /\ (agreed' # NoInterval => Fits(agreed'))
      BY <3>1, TruncateFits
    <3> QED BY <2>2, <3>2 DEF CommitObserve, store
  <2>3. ASSUME NEW signers \in SUBSET Nodes, CommitReport(signers) PROVE CommitInv'
    <3>1. CASE attested' = attested
      BY <2>3, <3>1 DEF CommitReport, store
    <3>2. CASE attested' # attested
      <4>1. /\ attested' = attested \cup {agreed}
            /\ agreed \notin {NoRound, NoInterval}
            /\ Attests(IF Builds(agreed) THEN signers ELSE signers \cap Faulty)
        BY <2>3, <3>2 DEF CommitReport
      <4>2. agreed.max <= sent
        BY <4>1, FaultyDoNotAttest DEF Builds
      <4> QED BY <2>3, <4>1, <4>2 DEF CommitReport, store
    <3> QED BY <3>1, <3>2
  <2>4. ASSUME NEW interval \in attested, TransmitRoot(interval) PROVE CommitInv'
    <3>1. interval \in Interval
      <4>1. interval.min \in Nat \ {0}
        BY <2>4, ExpectedNextType DEF TransmitRoot
      <4>2. interval \in AnyInterval /\ interval.min <= interval.max /\ interval.max <= sent
        BY DEF Fits
      <4> QED BY <4>1, <4>2, CCIPDonAssumption DEF AnyInterval, Interval, Messages
    <3> QED BY <2>4, <3>1 DEF TransmitRoot, commitVars
  <2>5. ASSUME NEW interval \in attested, GiveUpRoot(interval) PROVE CommitInv'
    BY <2>5 DEF GiveUpRoot, store
  <2>6. CASE UNCHANGED cvars
    BY <2>6 DEF cvars
  <2> QED BY <2>1, <2>2, <2>3, <2>4, <2>5, <2>6 DEF CommitNext
<1> QED BY <1>1, <1>2, PTL DEF CommitSpec

\* Whatever the faulty nodes do, what is committed was sent, and is committed
\* in order and once (buildReport, isStaleMerkleRoot).
THEOREM CommitImplementsStore == CommitSpec => ImplementsStore
<1>1. CommitInit => StoreInit
  BY DEF CommitInit
<1>2. CommitInv /\ [CommitNext]_cvars => [Send \/ CommitSome]_store
  <2> SUFFICES ASSUME CommitInv, [CommitNext]_cvars PROVE [Send \/ CommitSome]_store
    OBVIOUS
  <2>1. CASE Send /\ UNCHANGED commitVars
    BY <2>1
  <2>2. ASSUME NEW keepUp \in BOOLEAN, CommitObserve(keepUp) PROVE UNCHANGED store
    BY <2>2 DEF CommitObserve
  <2>3. ASSUME NEW signers \in SUBSET Nodes, CommitReport(signers) PROVE UNCHANGED store
    BY <2>3 DEF CommitReport
  <2>4. ASSUME NEW interval \in attested, TransmitRoot(interval) PROVE CommitSome
    <3>1. /\ interval \in AnyInterval
          /\ Fits(interval)
          /\ interval.max <= sent
          /\ sent \in 0..MaxSent
          /\ ExpectedNext \in Nat \ {0}
      BY ExpectedNextType DEF CommitInv
    <3>2. interval \in Interval
      BY <2>4, <3>1, CCIPDonAssumption DEF TransmitRoot, AnyInterval, Interval, Messages, Fits
    <3>3. Commit(interval)
      BY <2>4, <3>1, <3>2 DEF Commit, TransmitRoot, AnyInterval, Fits
    <3> QED BY <3>2, <3>3 DEF CommitSome
  <2>5. ASSUME NEW interval \in attested, GiveUpRoot(interval) PROVE UNCHANGED store
    BY <2>5 DEF GiveUpRoot
  <2>6. CASE UNCHANGED cvars
    BY <2>6 DEF cvars, store
  <2> QED BY <2>1, <2>2, <2>3, <2>4, <2>5, <2>6 DEF CommitNext
<1> QED BY <1>1, <1>2, CommitInvHolds, PTL DEF CommitSpec, ImplementsStore, StoreSpec

-----------------------------------------------------------------------------
(* The exec plugin. *)

IsFetched(report) == \A m \in DOMAIN report : report[m] = "fetched"

\* NothingForged, report by report.
ExecInv ==
    /\ observed # NoRound => IsFetched(observed)
    /\ \A report \in pending : IsFetched(report)
    /\ DOMAIN inflight = Honest
    /\ \A n \in Honest : \A report \in inflight[n] : IsFetched(report)

\* An honest node observes what the attestation service gave.
LEMMA HonestObservations ==
    ASSUME NEW obs \in HeardMessages, NEW n \in Honest
    PROVE  \E msgs : obs[n] = Fetched(msgs)
<1>1. PICK h, lies :
          obs = [node \in Nodes |-> IF node \in Faulty THEN lies[node] ELSE Fetched(h[node])]
  BY DEF HeardMessages
<1>2. n \in Nodes /\ n \notin Faulty
  BY DEF Honest
<1> QED BY <1>1, <1>2

\* Of more nodes than the threshold one is honest.
LEMMA OneIsHonest ==
    ASSUME NEW heard \in SUBSET Nodes, Cardinality(heard) > Threshold
    PROVE  \E n \in heard : n \in Honest
<1> SUFFICES ASSUME heard \subseteq Faulty PROVE FALSE
  BY DEF Honest
<1>1. IsFiniteSet(Faulty)
  BY CCIPDonAssumption, FS_Subset
<1>2. Cardinality(heard) <= Cardinality(Faulty)
  BY <1>1, FS_Subset
<1>3. Cardinality(heard) \in Nat /\ Cardinality(Faulty) \in Nat
  BY <1>1, FS_Subset, FS_CardinalityType
<1> QED BY <1>2, <1>3, CCIPDonAssumption DEF Threshold

\* What a round agrees on was fetched.
LEMMA AgreedAreFetched ==
    ASSUME NEW obs \in HeardMessages, NEW report \in AgreedMessages(obs)
    PROVE  IsFetched(report)
<1> SUFFICES ASSUME NEW m \in DOMAIN report PROVE report[m] = "fetched"
  BY DEF IsFetched
<1> DEFINE heard == {n \in Nodes : m \in DOMAIN obs[n] /\ obs[n][m] = report[m]}
<1>1. IsAgreed(obs, m, report[m])
  BY DEF AgreedMessages
<1>2. Cardinality(heard) > Threshold
  BY <1>1 DEF IsAgreed, Tally
<1>3. PICK n \in heard : n \in Honest
  <2> HIDE DEF heard
  <2>1. heard \in SUBSET Nodes
    BY DEF heard
  <2> QED BY <1>2, <2>1, OneIsHonest
<1>4. PICK msgs : obs[n] = Fetched(msgs)
  BY <1>3, HonestObservations
<1>5. m \in DOMAIN obs[n] /\ obs[n][m] = report[m]
  BY <1>3
<1> QED BY <1>4, <1>5 DEF Fetched

LEMMA ExecInvHolds == ExecSpec => []ExecInv
<1>1. ExecInit => ExecInv
  BY DEF ExecInit, ExecInv
<1>2. ExecInv /\ [ExecNext]_evars => ExecInv'
  <2> SUFFICES ASSUME ExecInv, [ExecNext]_evars PROVE ExecInv'
    OBVIOUS
  <2> USE DEF ExecInv
  <2>1. CASE (Send \/ CommitSome) /\ UNCHANGED execVars
    BY <2>1 DEF execVars
  <2>2. CASE CatchUp
    BY <2>2 DEF CatchUp
  <2>3. CASE ExecObserve
    <3>1. PICK obs \in HeardMessages : observed' \in AgreedMessages(obs)
      BY <2>3 DEF ExecObserve
    <3>2. IsFetched(observed')
      BY <3>1, AgreedAreFetched
    <3> QED BY <2>3, <3>2 DEF ExecObserve, store
  <2>4. CASE ExecReport
    <3> DEFINE msgs   == InFirstRoot(DOMAIN observed)
               report == [m \in msgs |-> observed[m]]
    <3>1. CASE UNCHANGED <<pending, inflight>>
      BY <2>4, <3>1 DEF ExecReport
    <3>2. CASE ~UNCHANGED <<pending, inflight>>
      <4>1. IsFetched(report)
        <5>1. msgs \subseteq DOMAIN observed
          BY DEF InFirstRoot
        <5> QED BY <2>4, <5>1 DEF ExecReport, IsFetched
      <4>2. Accept(report) /\ observed' = NoRound
        BY <2>4, <3>2 DEF ExecReport
      <4> HIDE DEF report
      <4>3. /\ DOMAIN inflight' = Honest
            /\ \A n \in Honest : inflight'[n] \subseteq inflight[n] \cup {report}
            /\ pending' \subseteq pending \cup {report}
        BY <4>2 DEF Accept
      <4> QED BY <4>1, <4>2, <4>3
    <3> QED BY <3>1, <3>2
  <2>5. ASSUME NEW msgs, ExecuteBatch(msgs) PROVE ExecInv'
    BY <2>5 DEF ExecuteBatch
  <2>6. ASSUME NEW report \in pending, GiveUpReport(report) PROVE ExecInv'
    BY <2>6 DEF GiveUpReport
  <2>7. ASSUME NEW n \in Honest, NEW report \in inflight[n], Expire(n, report) PROVE ExecInv'
    BY <2>7 DEF Expire
  <2>8. ASSUME NEW n \in Honest, NEW i \in snoozed[n], WakeUp(n, i) PROVE ExecInv'
    BY <2>8 DEF WakeUp
  <2>9. CASE Refill
    BY <2>9 DEF Refill
  <2>10. CASE UNCHANGED evars
    BY <2>10 DEF evars
  <2> QED BY <2>1, <2>2, <2>3, <2>4, <2>5, <2>6, <2>7, <2>8, <2>9, <2>10
          DEF ExecNext, TransmitReport, ExecuteByHand
<1> QED BY <1>1, <1>2, PTL DEF ExecSpec

\* Token data that only faulty nodes observed is never agreed on, held in flight
\* or transmitted (calculateObservedMessagesConsensus).
THEOREM ExecNothingForged == ExecSpec => []NothingForged
<1>1. ExecInv => NothingForged
  BY DEF ExecInv, IsFetched, NothingForged
<1> QED BY <1>1, ExecInvHolds, PTL
=============================================================================
