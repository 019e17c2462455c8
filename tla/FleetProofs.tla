---------------------------- MODULE FleetProofs -----------------------------
(***************************************************************************)
(* Theorems about module Fleet, for every value of its constants.          *)
(***************************************************************************)
EXTENDS Fleet, FiniteSetTheorems, TLAPS

(* Reading a fleet out of the table gives a profile.                       *)
LEMMA ProfileRead ==
  ASSUME TypeOK, NEW f \in FleetIds, Exists(f)
  PROVE  /\ fleet[f] \in FleetProfile
         /\ fleet[f].owner \in Addresses /\ fleet[f].treasury \in Addresses
         /\ fleet[f].total_active_drivers \in Nat
         /\ fleet[f].signers \subseteq Addresses
         /\ fleet[f].signature_threshold \in Nat
         /\ fleet[f].active \in BOOLEAN
<1>1. fleet[f] \in FleetProfile
  BY DEF TypeOK, Exists
<1>2. QED
  BY <1>1 DEF FleetProfile

(* Every pending treasury is the one that was announced last, and it       *)
(* becomes effective a timelock later.                                     *)
PendingAnnounced ==
  \A f \in FleetIds :
    pending[f] # None =>
      /\ announced[f] # None
      /\ announced[f].treasury = pending[f].treasury
      /\ pending[f].activates_at = announced[f].at + Timelock

(* Fleets are numbered without gaps, and not before the contract is set up.*)
Registered ==
  /\ \A f \in FleetIds : f > counter => fleet[f] = None
  /\ admin = None => counter = 0

(* Counting a driver off leaves a natural number.                          *)
LEMMA HeadcountNat ==
  ASSUME TypeOK, NEW f \in FleetIds, Exists(f), NEW d \in Addresses
  PROVE  Headcount(f, d) \in Nat
BY ProfileRead DEF Headcount

(* Managing a fleet leaves the other fleets, and its own count of drivers, *)
(* alone; it may stop the fleet and never starts it again, and only the    *)
(* confirmation changes the treasury.                                      *)
LEMMA ManagedProfile ==
  ASSUME TypeOK, NEW f \in FleetIds, Manage(f), fleet' # fleet
  PROVE  /\ fleet[f] \in FleetProfile
         /\ fleet' = [fleet EXCEPT ![f] = fleet'[f]]
         /\ fleet'[f] \in FleetProfile
         /\ fleet'[f].total_active_drivers = fleet[f].total_active_drivers
         /\ fleet'[f].active => fleet[f].active
         /\ fleet'[f].treasury # fleet[f].treasury => ConfirmTreasury(f)
<1> DEFINE Kept ==
      /\ fleet' = [fleet EXCEPT ![f] = fleet'[f]]
      /\ fleet'[f] \in FleetProfile
      /\ fleet'[f].total_active_drivers = fleet[f].total_active_drivers
      /\ fleet'[f].active => fleet[f].active
      /\ fleet'[f].treasury # fleet[f].treasury => ConfirmTreasury(f)
<1>0. Exists(f) /\ fleet[f] \in FleetProfile
  BY ProfileRead DEF Manage, ConfigureSigners, DeactivateFleet,
                     ProposeTreasury, ConfirmTreasury
<1>1. ASSUME NEW o \in Owners, NEW list \in SignerLists, NEW n \in Thresholds,
             ConfigureSigners(o, f, list, n)
      PROVE  Kept
  <2> DEFINE signers == {list[i] : i \in DOMAIN list}
  <2>1. signers \subseteq Addresses /\ n \in Nat
    BY FleetAddresses, FleetNumbers
  <2>2. fleet' = [fleet EXCEPT ![f].signers = signers,
                               ![f].signature_threshold = n]
    BY <1>1 DEF ConfigureSigners
  <2> HIDE DEF signers
  <2>3. QED
    BY <1>0, <2>1, <2>2 DEF FleetProfile, TypeOK
<1>2. ASSUME NEW c \in Callers, DeactivateFleet(c, f)
      PROVE  Kept
  BY <1>0, <1>2 DEF DeactivateFleet, FleetProfile, TypeOK
<1>3. ASSUME ConfirmTreasury(f)
      PROVE  Kept
  <2>1. pending[f].treasury \in Addresses
    BY <1>3 DEF ConfirmTreasury, PendingTreasuryChange, TypeOK
  <2>2. fleet' = [fleet EXCEPT ![f].treasury = pending[f].treasury]
    BY <1>3 DEF ConfirmTreasury
  <2>3. QED
    BY <1>0, <1>3, <2>1, <2>2 DEF FleetProfile, TypeOK
<1>4. QED
  BY <1>0, <1>1, <1>2, <1>3 DEF Manage, ProposeTreasury

(* A change of membership touches only the count of the fleet's profile.   *)
LEMMA EnrolledProfile ==
  ASSUME TypeOK, NEW f \in FleetIds, NEW d \in Drivers, Enrol(f, d),
         fleet' # fleet
  PROVE  /\ fleet[f] \in FleetProfile
         /\ fleet' = [fleet EXCEPT ![f] = fleet'[f]]
         /\ fleet'[f] \in FleetProfile
         /\ fleet'[f].active = fleet[f].active
         /\ fleet'[f].treasury = fleet[f].treasury
<1>1. fleet[f] \in FleetProfile /\ fleet[f].total_active_drivers + 1 \in Nat
  BY ProfileRead DEF Enrol, AddDriver, CancelInvite, RemoveDriver, AcceptInvite
<1>2. PICK n \in Nat : fleet' = [fleet EXCEPT ![f].total_active_drivers = n]
  <2>1. CASE AcceptInvite(f, d)
    BY <1>1, <2>1 DEF AcceptInvite, TypeOK
  <2>2. ASSUME NEW c \in Callers, RemoveDriver(c, f, d)
        PROVE  \E n \in Nat : fleet' = [fleet EXCEPT ![f].total_active_drivers = n]
    BY <2>2, HeadcountNat, FleetAddresses DEF RemoveDriver
  <2>3. QED
    BY <2>1, <2>2 DEF Enrol, AddDriver, CancelInvite
<1>3. QED
  BY <1>1, <1>2 DEF FleetProfile, TypeOK

(* What a proposal announces.                                              *)
LEMMA ProposalNotice ==
  ASSUME TypeOK, NEW f \in FleetIds,
         NEW c \in Callers, NEW t \in Treasuries, ProposeTreasury(c, f, t)
  PROVE  /\ announced' = [announced EXCEPT ![f] = announced'[f]]
         /\ announced'[f] \in Announcement
         /\ announced'[f].treasury = t /\ announced'[f].at = now
<1> DEFINE notice == [treasury |-> t, at |-> now]
<1>1. t \in Addresses /\ now \in Nat
  BY FleetAddresses DEF TypeOK
<1>2. announced' = [announced EXCEPT ![f] = notice]
  BY DEF ProposeTreasury
<1>3. notice \in Announcement /\ notice.treasury = t /\ notice.at = now
  BY <1>1 DEF Announcement
<1> HIDE DEF notice
<1>4. QED
  BY <1>2, <1>3 DEF TypeOK

-----------------------------------------------------------------------------
(* Types, one group of steps at a time.                                    *)

(* The steps of the admin and of owners registering fleets keep the types. *)
LEMMA AdminTypes ==
  ASSUME TypeOK, Administer
  PROVE  TypeOK'
<1>1. CASE \E a \in Admins : InitContract(a)
  BY <1>1, FleetAddresses, FleetNumbers DEF InitContract, TypeOK
<1>2. CASE \E a \in IdentityAddrs : SetIdentityContract(a)
  BY <1>2, FleetAddresses DEF SetIdentityContract, TypeOK
<1>3. ASSUME NEW o \in Owners, NEW t \in Treasuries, RegisterFleet(o, t)
      PROVE  TypeOK'
  <2> DEFINE profile == [owner |-> o, treasury |-> t,
                         total_active_drivers |-> 0, signers |-> {o},
                         signature_threshold |-> 1, active |-> TRUE]
  <2>1. profile \in FleetProfile
    BY FleetAddresses DEF FleetProfile
  <2>2. counter' \in 0..MaxFleets
    BY <1>3, FleetNumbers DEF RegisterFleet, TypeOK
  <2>3. fleet' = [fleet EXCEPT ![counter + 1] = profile]
    BY <1>3 DEF RegisterFleet
  <2> HIDE DEF profile
  <2>4. fleet' \in [FleetIds -> FleetProfile \cup {None}]
    BY <2>1, <2>3 DEF TypeOK
  <2>5. QED
    BY <1>3, <2>2, <2>4 DEF RegisterFleet, TypeOK
<1>4. QED
  BY <1>1, <1>2, <1>3 DEF Administer

(* The steps that change a fleet or its pending treasury keep the types.   *)
LEMMA ManageTypes ==
  ASSUME TypeOK, PendingAnnounced, NEW f \in FleetIds, Manage(f)
  PROVE  TypeOK'
<1>1. fleet' \in [FleetIds -> FleetProfile \cup {None}]
  BY ManagedProfile DEF TypeOK
<1>2. CASE fleet' # fleet
  BY <1>1, <1>2 DEF Manage, ConfigureSigners, DeactivateFleet,
                    ProposeTreasury, ConfirmTreasury, TypeOK
<1>3. ASSUME NEW c \in Callers, NEW t \in Treasuries, ProposeTreasury(c, f, t)
      PROVE  TypeOK'
  <2>1. c \in Addresses /\ t \in Addresses
    BY FleetAddresses DEF Callers
  <2>2. now \in Nat /\ Activation \in Nat
    BY FleetNumbers DEF Activation, TypeOK
  <2>3. pending' \in [FleetIds -> PendingTreasuryChange \cup {None}]
    BY <1>3, <2>1, <2>2 DEF ProposeTreasury, PendingTreasuryChange, TypeOK
  <2>4. announced' \in [FleetIds -> Announcement \cup {None}]
    BY <1>3, ProposalNotice DEF TypeOK
  <2>5. QED
    BY <1>3, <2>3, <2>4 DEF ProposeTreasury, TypeOK
<1>4. QED
  BY <1>1, <1>2, <1>3 DEF Manage, ConfigureSigners, DeactivateFleet,
                          ConfirmTreasury, TypeOK

(* The steps that change a membership keep the types.                      *)
LEMMA EnrolTypes ==
  ASSUME TypeOK, NEW f \in FleetIds, NEW d \in Drivers, Enrol(f, d)
  PROVE  TypeOK'
<1>1. d \in Addresses
  BY FleetAddresses
<1>2. fleet' \in [FleetIds -> FleetProfile \cup {None}]
  BY EnrolledProfile DEF TypeOK
<1>3. member' \in [FleetIds -> [Addresses -> Memberships \cup {None}]]
  <2>1. PICK m \in Memberships \cup {None} :
             member' = [member EXCEPT ![f][d] = m]
    BY DEF Enrol, AddDriver, CancelInvite, RemoveDriver, AcceptInvite, Memberships
  <2>2. QED
    BY <1>1, <2>1 DEF TypeOK
<1>4. roster' \in [FleetIds -> SUBSET Addresses]
  BY <1>1 DEF Enrol, AddDriver, CancelInvite, RemoveDriver, AcceptInvite, TypeOK
<1>5. UNCHANGED <<admin, identityContract, counter, pending, announced, now>>
  BY DEF Enrol, AddDriver, CancelInvite, RemoveDriver, AcceptInvite
<1>6. QED
  BY <1>2, <1>3, <1>4, <1>5 DEF TypeOK

-----------------------------------------------------------------------------
(* What the types rest on, and the types.                                  *)

(* A pending treasury stays the announced one: only a proposal, which is   *)
(* announced, and a confirmation, which clears it, touch it.               *)
LEMMA PendingStep ==
  ASSUME TypeOK, PendingAnnounced, [Next]_vars
  PROVE  PendingAnnounced'
<1>1. CASE UNCHANGED vars
  BY <1>1 DEF vars, PendingAnnounced
<1>2. CASE Administer
  BY <1>2 DEF Administer, InitContract, SetIdentityContract, RegisterFleet,
              PendingAnnounced
<1>3. ASSUME NEW f \in FleetIds, Manage(f)
      PROVE  PendingAnnounced'
  <2>1. ASSUME NEW o \in Owners, NEW list \in SignerLists, NEW n \in Thresholds,
               ConfigureSigners(o, f, list, n)
        PROVE  PendingAnnounced'
    BY <2>1 DEF ConfigureSigners, PendingAnnounced
  <2>2. ASSUME NEW c \in Callers, DeactivateFleet(c, f)
        PROVE  PendingAnnounced'
    BY <2>2 DEF DeactivateFleet, PendingAnnounced
  <2>3. ASSUME NEW c \in Callers, NEW t \in Treasuries, ProposeTreasury(c, f, t)
        PROVE  PendingAnnounced'
    <3>1. /\ announced' = [announced EXCEPT ![f] = announced'[f]]
          /\ announced'[f] # None
          /\ announced'[f].treasury = t /\ announced'[f].at = now
      BY <2>3, ProposalNotice, FleetRecords
    <3>2. pending' = [pending EXCEPT ![f] =
                        [treasury |-> t, activates_at |-> now + Timelock]]
      BY <2>3 DEF ProposeTreasury, Activation
    <3>3. QED
      BY <3>1, <3>2 DEF PendingAnnounced, TypeOK
  <2>4. ASSUME ConfirmTreasury(f)
        PROVE  PendingAnnounced'
    BY <2>4 DEF ConfirmTreasury, PendingAnnounced, TypeOK
  <2>5. QED
    BY <1>3, <2>1, <2>2, <2>3, <2>4 DEF Manage
<1>4. ASSUME NEW f \in FleetIds, NEW d \in Drivers, Enrol(f, d)
      PROVE  PendingAnnounced'
  BY <1>4 DEF Enrol, AddDriver, CancelInvite, RemoveDriver, AcceptInvite,
              PendingAnnounced
<1>5. CASE Tick
  BY <1>5 DEF Tick, PendingAnnounced
<1>6. QED
  BY <1>1, <1>2, <1>3, <1>4, <1>5 DEF Next

(* Every step keeps the types.                                             *)
LEMMA TypeStep ==
  ASSUME TypeOK, PendingAnnounced, [Next]_vars
  PROVE  TypeOK'
<1>1. CASE UNCHANGED vars
  BY <1>1 DEF vars, TypeOK
<1>2. CASE Tick
  BY <1>2 DEF Tick, TypeOK
<1>3. QED
  BY <1>1, <1>2, AdminTypes, ManageTypes, EnrolTypes DEF Next

(* The types hold at first, when nothing is pending.                       *)
LEMMA InitTypes == Init => TypeOK /\ PendingAnnounced
BY FleetNumbers DEF Init, TypeOK, PendingAnnounced

(* Every variable of the fleet contract keeps its type; in particular the  *)
(* count of active drivers never goes below zero, where it would panic.    *)
THEOREM FleetTypeCorrect == Spec => []TypeOK
<1>1. TypeOK /\ PendingAnnounced /\ [Next]_vars => (TypeOK /\ PendingAnnounced)'
  BY PendingStep, TypeStep
<1>2. QED
  BY <1>1, InitTypes, PTL DEF Spec

-----------------------------------------------------------------------------
(* Numbering of fleets.                                                    *)

(* Every step keeps the numbering of fleets.                               *)
LEMMA RegisteredStep ==
  ASSUME TypeOK, Registered, [Next]_vars
  PROVE  Registered'
<1>1. CASE UNCHANGED vars
  BY <1>1 DEF vars, Registered
<1>2. CASE Administer
  <2>1. ASSUME NEW a \in Admins, InitContract(a)
        PROVE  Registered'
    BY <2>1, FleetAddresses DEF InitContract, Registered
  <2>2. ASSUME NEW a \in IdentityAddrs, SetIdentityContract(a)
        PROVE  Registered'
    BY <2>2 DEF SetIdentityContract, Registered
  <2>3. ASSUME NEW o \in Owners, NEW t \in Treasuries, RegisterFleet(o, t)
        PROVE  Registered'
    <3>1. /\ counter \in Nat /\ counter' = counter + 1 /\ admin' = admin
          /\ admin # None
          /\ \A f \in FleetIds : f # counter + 1 => fleet'[f] = fleet[f]
      BY <2>3, FleetNumbers DEF RegisterFleet, TypeOK
    <3>2. \A f \in FleetIds : f \in Nat
      BY FleetNumbers DEF FleetIds
    <3>3. QED
      BY <3>1, <3>2 DEF Registered
  <2>4. QED
    BY <1>2, <2>1, <2>2, <2>3 DEF Administer
<1>3. ASSUME NEW f \in FleetIds, Manage(f) \/ \E d \in Drivers : Enrol(f, d)
      PROVE  Registered'
  <2>1. /\ admin' = admin /\ counter' = counter
        /\ \A g \in FleetIds : fleet[g] = None => fleet'[g] = None
    BY <1>3 DEF Manage, ConfigureSigners, DeactivateFleet, ProposeTreasury,
                ConfirmTreasury, Enrol, AddDriver, CancelInvite, AcceptInvite,
                RemoveDriver, Exists, TypeOK
  <2>2. QED
    BY <2>1 DEF Registered
<1>4. CASE Tick
  BY <1>4 DEF Tick, Registered
<1>5. QED
  BY <1>1, <1>2, <1>3, <1>4 DEF Next

(* No fleet is registered at first.                                        *)
LEMMA InitRegistered == Init => Registered
BY DEF Init, Registered

(* A treasury replaces another only as it was last announced, and only     *)
(* when the timelock has passed since: the notice that drivers get before  *)
(* their payouts go elsewhere.                                             *)
THEOREM NoticeHolds == Spec => TreasuryAnnounced
<1> DEFINE Notice ==
      \A f \in FleetIds :
        fleet[f] # None /\ fleet'[f].treasury # fleet[f].treasury =>
          /\ announced[f].treasury = fleet'[f].treasury
          /\ now >= announced[f].at + Timelock
           IInv == TypeOK /\ PendingAnnounced /\ Registered
<1>1. ASSUME IInv, [Next]_vars
      PROVE  Notice
  <2> SUFFICES ASSUME NEW f \in FleetIds, fleet[f] # None,
                      fleet'[f].treasury # fleet[f].treasury
               PROVE  /\ announced[f].treasury = fleet'[f].treasury
                      /\ now >= announced[f].at + Timelock
    OBVIOUS
  <2>1. CASE ConfirmTreasury(f)
    BY <1>1, <2>1 DEF ConfirmTreasury, PendingAnnounced, TypeOK
  <2>2. ASSUME NEW g \in FleetIds, Manage(g)
        PROVE  ConfirmTreasury(f)
    BY <1>1, <2>2, ManagedProfile DEF TypeOK
  <2>3. ASSUME NEW g \in FleetIds, NEW d \in Drivers, Enrol(g, d)
        PROVE  FALSE
    BY <1>1, <2>3, EnrolledProfile DEF TypeOK
  <2>4. CASE Administer
    <3>1. counter \in Nat /\ f \in Nat
      BY <1>1, FleetNumbers DEF FleetIds, TypeOK
    <3>2. f # counter + 1
      BY <1>1, <3>1 DEF Registered
    <3>3. QED
      BY <1>1, <2>4, <3>2 DEF Administer, InitContract, SetIdentityContract,
                              RegisterFleet, TypeOK
  <2>5. CASE Tick \/ UNCHANGED vars
    BY <2>5 DEF Tick, vars
  <2>6. QED
    BY <1>1, <2>1, <2>2, <2>3, <2>4, <2>5 DEF Next
<1>2. IInv /\ [Next]_vars => IInv'
  BY PendingStep, TypeStep, RegisteredStep
<1>3. Init => IInv
  BY InitTypes, InitRegistered
<1>4. IInv /\ [Next]_vars => [Notice]_vars
  BY <1>1
<1>5. Spec => [][Notice]_vars
  <2> HIDE DEF Notice, IInv
  <2>1. QED
    BY <1>2, <1>3, <1>4, PTL DEF Spec
<1>6. QED
  BY <1>5 DEF TreasuryAnnounced

-----------------------------------------------------------------------------
(* Membership.                                                             *)

(* The inductive form of MembershipConsistent, one fleet at a time: the    *)
(* roster is finite, so that its size changes by one with one driver, and  *)
(* a number that no fleet has yet has no members waiting.                  *)
Members(f) ==
  /\ IsFiniteSet(roster[f])
  /\ roster[f] = {d \in Addresses : member[f][d] = "Active"}
  /\ fleet[f] # None => fleet[f].total_active_drivers = Cardinality(roster[f])
  /\ fleet[f] = None => roster[f] = {}

MembersInv == \A f \in FleetIds : Members(f)

(* An acceptance adds one driver to the roster, and one to the count.      *)
LEMMA AcceptMembers ==
  ASSUME TypeOK, NEW f \in FleetIds, NEW d \in Drivers, Members(f),
         AcceptInvite(f, d)
  PROVE  Members(f)'
<1>1. d \in Addresses /\ fleet[f] \in FleetProfile /\ fleet[f] # None
  BY FleetAddresses DEF AcceptInvite, Exists, TypeOK
<1>2. roster'[f] = roster[f] \cup {d} /\ d \notin roster[f]
  BY <1>1 DEF AcceptInvite, Invited, Members, TypeOK
<1>3. IsFiniteSet(roster'[f]) /\ Cardinality(roster'[f]) = Cardinality(roster[f]) + 1
  <2>1. IsFiniteSet(roster[f])
    BY DEF Members
  <2>2. /\ IsFiniteSet(roster[f] \cup {d})
        /\ Cardinality(roster[f] \cup {d}) = Cardinality(roster[f]) + 1
    BY ONLY <1>2, <2>1, FS_AddElement
  <2>3. QED
    BY ONLY <1>2, <2>2
<1>4. roster'[f] = {x \in Addresses : member'[f][x] = "Active"}
  BY <1>1, <1>2 DEF AcceptInvite, Members, TypeOK
<1>5. /\ fleet'[f].total_active_drivers = fleet[f].total_active_drivers + 1
      /\ fleet'[f] \in FleetProfile
  <2>1. fleet[f].total_active_drivers + 1 \in Nat
    BY <1>1 DEF FleetProfile
  <2>2. fleet' = [fleet EXCEPT ![f].total_active_drivers =
                    fleet[f].total_active_drivers + 1]
    BY <1>1 DEF AcceptInvite, TypeOK
  <2>3. QED
    BY <1>1, <2>1, <2>2 DEF FleetProfile, TypeOK
<1>6. /\ fleet'[f].total_active_drivers = Cardinality(roster'[f])
      /\ fleet'[f] # None
  BY <1>1, <1>3, <1>5, FleetRecords DEF Members
<1>7. QED
  BY <1>3, <1>4, <1>6 DEF Members

(* A removal takes an active driver off the roster and off the count, and  *)
(* ends an invitation without touching either.                             *)
LEMMA RemoveMembers ==
  ASSUME TypeOK, NEW f \in FleetIds, NEW d \in Drivers, NEW c \in Callers,
         Members(f), RemoveDriver(c, f, d)
  PROVE  Members(f)'
<1>1. /\ d \in Addresses /\ fleet[f] \in FleetProfile /\ fleet[f] # None
      /\ fleet[f].total_active_drivers = Cardinality(roster[f])
  BY FleetAddresses DEF RemoveDriver, Exists, Members, TypeOK
<1>2. roster'[f] = roster[f] \ {d}
  BY DEF RemoveDriver, TypeOK
<1>3. roster'[f] = {x \in Addresses : member'[f][x] = "Active"}
  BY <1>1, <1>2 DEF RemoveDriver, Members, TypeOK
<1>4. Headcount(f, d) \in Nat
  BY <1>1, HeadcountNat DEF Exists
<1>5. /\ fleet'[f].total_active_drivers = Headcount(f, d)
      /\ fleet'[f] \in FleetProfile
  BY <1>1, <1>4 DEF RemoveDriver, FleetProfile, TypeOK
<1>6. IsFiniteSet(roster'[f]) /\ Headcount(f, d) = Cardinality(roster'[f])
  <2>1. IsFiniteSet(roster[f])
    BY DEF Members
  <2>2. CASE member[f][d] = "Active"
    <3>1. d \in roster[f]
      BY <1>1, <2>2 DEF Members
    <3>2. /\ IsFiniteSet(roster[f] \ {d})
          /\ Cardinality(roster[f] \ {d}) = Cardinality(roster[f]) - 1
      BY ONLY <2>1, <3>1, FS_RemoveElement
    <3>3. Cardinality(roster[f]) \in Nat /\ Cardinality(roster[f]) # 0
      BY <2>1, <3>1, FS_CardinalityType, FS_EmptySet
    <3>4. Headcount(f, d) = Cardinality(roster[f]) - 1
      BY <1>1, <2>2, <3>3 DEF Headcount
    <3>5. QED
      BY <1>2, <3>2, <3>4
  <2>3. CASE member[f][d] # "Active"
    <3>1. roster'[f] = roster[f]
      BY <1>1, <1>2, <2>3 DEF Members
    <3>2. QED
      BY <1>1, <2>1, <2>3, <3>1 DEF Headcount
  <2>4. QED
    BY <2>2, <2>3
<1>7. QED
  BY <1>1, <1>3, <1>5, <1>6, FleetRecords DEF Members

(* Every other step leaves who is active, the roster and the count alone.  *)
LEMMA QuietMembers ==
  ASSUME TypeOK, NEW f \in FleetIds, Members(f),
         roster'[f] = roster[f],
         \A d \in Addresses : (member'[f][d] = "Active") <=> (member[f][d] = "Active"),
         fleet'[f] # None =>
           IF fleet[f] = None
           THEN fleet'[f].total_active_drivers = 0
           ELSE fleet'[f].total_active_drivers = fleet[f].total_active_drivers,
         fleet'[f] = None => fleet[f] = None
  PROVE  Members(f)'
BY FS_EmptySet DEF Members

(* Every step keeps the records of membership in agreement.                *)
LEMMA MembersStep ==
  ASSUME TypeOK, Registered, MembersInv, [Next]_vars
  PROVE  MembersInv'
<1> SUFFICES ASSUME NEW f \in FleetIds
             PROVE  Members(f)'
  BY DEF MembersInv
<1>0. Members(f)
  BY DEF MembersInv
<1>1. CASE UNCHANGED vars \/ Tick
  BY <1>0, <1>1, QuietMembers DEF vars, Tick
<1>2. CASE Administer
  <2>1. roster' = roster /\ member' = member
    BY <1>2 DEF Administer, InitContract, SetIdentityContract, RegisterFleet
  <2>2. CASE fleet' = fleet
    BY <1>0, <2>1, <2>2, QuietMembers
  <2>3. ASSUME NEW o \in Owners, NEW t \in Treasuries, RegisterFleet(o, t)
        PROVE  Members(f)'
    <3>1. CASE f = counter + 1
      <4>1. counter \in Nat /\ f > counter
        BY <3>1, FleetNumbers DEF TypeOK
      <4>2. fleet[f] = None
        BY <4>1 DEF Registered
      <4>3. fleet'[f] # None => fleet'[f].total_active_drivers = 0
        BY <2>3, <3>1 DEF RegisterFleet, TypeOK
      <4>4. fleet'[f] = None => fleet[f] = None
        BY <4>2
      <4>5. QED
        BY <1>0, <2>1, <4>2, <4>3, <4>4, QuietMembers
    <3>2. CASE f # counter + 1
      <4>1. fleet'[f] = fleet[f]
        BY <2>3, <3>2 DEF RegisterFleet, TypeOK
      <4>2. QED
        BY <1>0, <2>1, <4>1, QuietMembers
    <3>3. QED
      BY <3>1, <3>2
  <2>4. QED
    BY <1>2, <2>2, <2>3 DEF Administer, InitContract, SetIdentityContract
<1>3. ASSUME NEW g \in FleetIds, Manage(g)
      PROVE  Members(f)'
  <2>1. roster' = roster /\ member' = member
    BY <1>3 DEF Manage, ConfigureSigners, DeactivateFleet, ProposeTreasury,
                ConfirmTreasury
  <2>2. CASE fleet'[f] = fleet[f]
    BY <1>0, <2>1, <2>2, QuietMembers
  <2>3. CASE fleet'[f] # fleet[f]
    <3>1. /\ f = g /\ fleet[f] # None /\ fleet'[f] # None
          /\ fleet'[f].total_active_drivers = fleet[f].total_active_drivers
      BY <1>3, <2>3, ManagedProfile, FleetRecords DEF TypeOK
    <3>2. QED
      BY <1>0, <2>1, <3>1, QuietMembers
  <2>4. QED
    BY <2>2, <2>3
<1>4. ASSUME NEW g \in FleetIds, NEW d \in Drivers, Enrol(g, d)
      PROVE  Members(f)'
  <2>0. d \in Addresses
    BY FleetAddresses
  <2>1. CASE f # g
    <3>1. /\ roster'[f] = roster[f] /\ member'[f] = member[f]
          /\ fleet'[f] = fleet[f]
      BY <1>4, <2>1 DEF Enrol, AddDriver, CancelInvite, RemoveDriver,
                        AcceptInvite, TypeOK
    <3>2. QED
      BY <1>0, <3>1, QuietMembers
  <2>2. ASSUME f = g, NEW c \in Callers, AddDriver(c, f, d) \/ CancelInvite(c, f, d)
        PROVE  Members(f)'
    <3>1. roster' = roster /\ fleet' = fleet
      BY <2>2 DEF AddDriver, CancelInvite
    <3>2. \A x \in Addresses : (member'[f][x] = "Active") <=> (member[f][x] = "Active")
      <4>1. CASE AddDriver(c, f, d)
        BY <2>0, <4>1 DEF AddDriver, TypeOK
      <4>2. CASE CancelInvite(c, f, d)
        BY <2>0, <4>2, FleetRecords DEF CancelInvite, Memberships, TypeOK
      <4>3. QED
        BY <2>2, <4>1, <4>2
    <3>3. QED
      BY <1>0, <3>1, <3>2, QuietMembers
  <2>3. QED
    BY <1>0, <1>4, <2>1, <2>2, AcceptMembers, RemoveMembers DEF Enrol
<1>5. QED
  BY <1>1, <1>2, <1>3, <1>4 DEF Next

(* They agree at first: nobody is a member.                                *)
LEMMA InitMembers == Init => MembersInv
BY FS_EmptySet, FleetRecords DEF Init, MembersInv, Members, Memberships

(* The inductive form, as an invariant of the specification.               *)
LEMMA MembersInvariant == Spec => [](TypeOK /\ Registered /\ MembersInv)
<1> DEFINE IInv == TypeOK /\ PendingAnnounced /\ Registered /\ MembersInv
<1>1. Init => IInv
  BY InitTypes, InitRegistered, InitMembers
<1>2. IInv /\ [Next]_vars => IInv'
  BY PendingStep, TypeStep, RegisteredStep, MembersStep
<1>3. IInv => TypeOK /\ Registered /\ MembersInv
  OBVIOUS
<1>4. QED
  <2> HIDE DEF IInv
  <2>1. QED
    BY <1>1, <1>2, <1>3, PTL DEF Spec

(* Status, roster and count of every fleet agree, for rosters of any size. *)
THEOREM MembershipAgrees == Spec => []MembershipConsistent
<1>1. MembersInv => MembershipConsistent
  BY DEF MembersInv, Members, MembershipConsistent
<1>2. QED
  BY <1>1, MembersInvariant, PTL

(* A driver's payouts start to go to a treasury only by the acceptance of  *)
(* that driver.                                                            *)
THEOREM ConsentHolds == Spec => RoutedByConsent
<1> DEFINE Consent ==
      \A f \in FleetIds, d \in Addresses :
        ~Routed(f, d) /\ Routed(f, d)' => member[f][d] = "Pending"
           IInv == TypeOK /\ Registered /\ MembersInv
<1>1. ASSUME IInv, [Next]_vars
      PROVE  Consent
  <2> SUFFICES ASSUME NEW f \in FleetIds, NEW d \in Addresses,
                      ~Routed(f, d), Routed(f, d)'
               PROVE  member[f][d] = "Pending"
    OBVIOUS
  <2>0. member'[f][d] = "Active" /\ fleet'[f] # None /\ fleet'[f].active
    BY DEF Routed
  <2>1. CASE member[f][d] = "Active"
    <3>1. fleet[f] # None
      BY <1>1, <2>1 DEF MembersInv, Members
    <3>2. fleet[f] \in FleetProfile /\ ~fleet[f].active
      BY <1>1, <2>1, <3>1 DEF Routed, TypeOK
    <3>3. ~fleet'[f].active
      <4>1. CASE fleet'[f] = fleet[f]
        BY <3>2, <4>1
      <4>2. ASSUME NEW g \in FleetIds, Manage(g)
            PROVE  ~fleet'[f].active
        BY <1>1, <3>2, <4>2, ManagedProfile DEF TypeOK
      <4>3. ASSUME NEW g \in FleetIds, NEW x \in Drivers, Enrol(g, x)
            PROVE  ~fleet'[f].active
        BY <1>1, <3>2, <4>3, EnrolledProfile DEF TypeOK
      <4>4. CASE Administer
        <5>1. f # counter + 1
          <6>1. counter \in Nat /\ f \in Nat
            BY <1>1, FleetNumbers DEF FleetIds, TypeOK
          <6>2. QED
            BY <1>1, <3>1, <6>1 DEF Registered
        <5>2. fleet'[f] = fleet[f]
          BY <1>1, <4>4, <5>1 DEF Administer, InitContract,
             SetIdentityContract, RegisterFleet, TypeOK
        <5>3. QED
          BY <4>1, <5>2
      <4>5. QED
        BY <1>1, <4>1, <4>2, <4>3, <4>4 DEF Next, Tick, vars
    <3>4. QED
      BY <2>0, <3>3
  <2>2. CASE member[f][d] # "Active"
    <3>1. member' # member
      BY <2>0, <2>2
    <3>2. PICK g \in FleetIds, x \in Drivers : Enrol(g, x)
      BY <1>1, <3>1 DEF Next, Administer, InitContract, SetIdentityContract,
         RegisterFleet, Manage, ConfigureSigners, DeactivateFleet,
         ProposeTreasury, ConfirmTreasury, Tick, vars
    <3>3. x \in Addresses
      BY FleetAddresses
    <3>4. CASE AcceptInvite(g, x)
      BY <1>1, <2>0, <2>2, <3>3, <3>4 DEF AcceptInvite, Invited, TypeOK
    <3>5. ASSUME NEW c \in Callers,
                 AddDriver(c, g, x) \/ CancelInvite(c, g, x) \/ RemoveDriver(c, g, x)
          PROVE  FALSE
      BY <1>1, <2>0, <2>2, <3>3, <3>5, FleetRecords
         DEF AddDriver, CancelInvite, RemoveDriver, Memberships, TypeOK
    <3>6. QED
      BY <3>2, <3>4, <3>5 DEF Enrol
  <2>3. QED
    BY <2>1, <2>2
<1>2. IInv /\ [Next]_vars => [Consent]_vars
  BY <1>1
<1>3. Spec => [][Consent]_vars
  <2>1. Spec => []IInv
    BY MembersInvariant
  <2> HIDE DEF Consent, IInv
  <2>2. QED
    BY <1>2, <2>1, PTL DEF Spec
<1>4. QED
  BY <1>3 DEF RoutedByConsent
-----------------------------------------------------------------------------
(* The refinement of Charter.                                              *)

(* What is told of the fleets are functions, before a step and after it.   *)
LEMMA TellFunctions ==
  /\ TreasuryOf = [f \in FleetIds |-> TreasuryOf[f]]
  /\ TreasuryOf' = [f \in FleetIds |-> TreasuryOf'[f]]
  /\ OpenOf = [f \in FleetIds |-> OpenOf[f]]
  /\ AskedOf = [f \in FleetIds |-> AskedOf[f]]
  /\ AskedOf' = [f \in FleetIds |-> AskedOf'[f]]
  /\ SizeOf = [f \in FleetIds |-> SizeOf[f]]
  /\ SizeOf' = [f \in FleetIds |-> SizeOf'[f]]
BY DEF TreasuryOf, OpenOf, AskedOf, SizeOf

(* Two functions that differ at one point at most.                         *)
LEMMA OnePoint ==
  ASSUME NEW S, NEW F, NEW G, NEW x \in S, NEW v,
         F = [y \in S |-> F[y]], G = [y \in S |-> G[y]],
         \A y \in S : G[y] = IF y = x THEN v ELSE F[y]
  PROVE  G = [F EXCEPT ![x] = v]
OBVIOUS

(* Writing what was there changes nothing.                                 *)
LEMMA SamePoint ==
  ASSUME NEW S, NEW F, NEW x, NEW v, F = [y \in S |-> F[y]], v = F[x]
  PROVE  [F EXCEPT ![x] = v] = F
OBVIOUS

(* A new profile of one fleet changes its place in the three mapped        *)
(* functions and nothing else.                                             *)
LEMMA ProfileTold ==
  ASSUME TypeOK, NEW f \in FleetIds, NEW q \in FleetProfile,
         fleet' = [fleet EXCEPT ![f] = q]
  PROVE  /\ TreasuryOf' = [TreasuryOf EXCEPT ![f] = q.treasury]
         /\ OpenOf' = [OpenOf EXCEPT ![f] = q.active]
         /\ SizeOf' = [SizeOf EXCEPT ![f] = q.total_active_drivers]
<1>1. /\ fleet'[f] = q /\ q # None
      /\ \A g \in FleetIds \ {f} : fleet'[g] = fleet[g]
  BY FleetRecords DEF TypeOK
<1>2. q.active \in BOOLEAN
  BY DEF FleetProfile
<1>3. TreasuryOf' = [TreasuryOf EXCEPT ![f] = q.treasury]
  <2>1. \A g \in FleetIds :
          TreasuryOf'[g] = IF g = f THEN q.treasury ELSE TreasuryOf[g]
    BY <1>1 DEF TreasuryOf
  <2>2. QED
    BY <2>1, TellFunctions, OnePoint
<1>4. OpenOf' = [OpenOf EXCEPT ![f] = q.active]
  BY <1>1, <1>2, Zenon DEF OpenOf
<1>5. SizeOf' = [SizeOf EXCEPT ![f] = q.total_active_drivers]
  <2>1. \A g \in FleetIds :
          SizeOf'[g] = IF g = f THEN q.total_active_drivers ELSE SizeOf[g]
    BY <1>1 DEF SizeOf
  <2>2. QED
    BY <2>1, TellFunctions, OnePoint
<1>6. QED
  BY <1>3, <1>4, <1>5

(* A new status of one driver adds that driver to those who are asked, or  *)
(* takes the driver off.                                                   *)
LEMMA StatusTold ==
  ASSUME TypeOK, NEW f \in FleetIds, NEW d \in Addresses, NEW s,
         member' = [member EXCEPT ![f][d] = s]
  PROVE  /\ s = "Pending" => AskedOf' = [AskedOf EXCEPT ![f] = AskedOf[f] \cup {d}]
         /\ s # "Pending" => AskedOf' = [AskedOf EXCEPT ![f] = AskedOf[f] \ {d}]
<1> DEFINE asked == IF s = "Pending" THEN AskedOf[f] \cup {d} ELSE AskedOf[f] \ {d}
<1>1. /\ \A x \in Addresses : member'[f][x] = IF x = d THEN s ELSE member[f][x]
      /\ \A g \in FleetIds \ {f} : member'[g] = member[g]
  BY DEF TypeOK
<1>2. {x \in Addresses : member'[f][x] = "Pending"} = asked
  BY <1>1 DEF AskedOf
<1>3. \A g \in FleetIds : AskedOf'[g] = IF g = f THEN asked ELSE AskedOf[g]
  BY <1>1, <1>2 DEF AskedOf
<1>4. AskedOf' = [AskedOf EXCEPT ![f] = asked]
  <2> HIDE DEF asked
  <2>1. QED
    BY <1>3, TellFunctions, OnePoint
<1>5. QED
  BY <1>4

(* Registration founds the fleet of the next number, which has nobody.     *)
LEMMA RegisterTold ==
  ASSUME TypeOK, Registered, MembersInv, NEW o \in Owners, NEW t \in Treasuries,
         RegisterFleet(o, t)
  PROVE  \E f \in FleetIds : Terms!Found(f, t)
<1> DEFINE f == counter + 1
           q == [owner |-> o, treasury |-> t, total_active_drivers |-> 0,
                 signers |-> {o}, signature_threshold |-> 1, active |-> TRUE]
<1>1. f \in FleetIds /\ f > counter
  BY FleetNumbers DEF RegisterFleet, FleetIds, TypeOK
<1>2. q \in FleetProfile
  BY FleetAddresses DEF FleetProfile
<1>3. fleet' = [fleet EXCEPT ![f] = q] /\ UNCHANGED <<member, roster, pending, now>>
  BY DEF RegisterFleet
<1>4. fleet[f] = None /\ roster[f] = {}
  BY <1>1 DEF Registered, MembersInv, Members
<1>5. q.treasury = t /\ q.active = TRUE /\ q.total_active_drivers = 0
  OBVIOUS
<1> HIDE DEF f, q
<1>6. /\ TreasuryOf' = [TreasuryOf EXCEPT ![f] = t]
      /\ OpenOf' = [OpenOf EXCEPT ![f] = TRUE]
      /\ SizeOf' = [SizeOf EXCEPT ![f] = 0]
  BY <1>1, <1>2, <1>3, <1>5, ProfileTold
<1>7. TreasuryOf[f] = None /\ SizeOf[f] = 0
  BY <1>1, <1>4 DEF TreasuryOf, SizeOf
<1>8. SizeOf' = SizeOf
  BY <1>6, <1>7 DEF SizeOf
<1>9. AskedOf' = AskedOf
  BY <1>3 DEF AskedOf
<1>10. QED
  BY <1>1, <1>3, <1>4, <1>6, <1>7, <1>8, <1>9 DEF Terms!Found

(* A step of the management is a closing, an announcement, its effect, or  *)
(* nothing to a driver.                                                    *)
LEMMA ManageTold ==
  ASSUME TypeOK, NEW f \in FleetIds, Manage(f)
  PROVE  Terms!Govern(f) \/ UNCHANGED Terms!vars
<1>1. Exists(f) /\ fleet[f] \in FleetProfile
  BY ProfileRead DEF Manage, ConfigureSigners, DeactivateFleet,
                     ProposeTreasury, ConfirmTreasury
<1>2. /\ TreasuryOf[f] = fleet[f].treasury /\ OpenOf[f] = fleet[f].active
      /\ SizeOf[f] = fleet[f].total_active_drivers
      /\ fleet[f].active \in BOOLEAN /\ TreasuryOf[f] # None
  BY <1>1, FleetAddresses DEF TreasuryOf, OpenOf, SizeOf, Exists, FleetProfile
<1>3. /\ [TreasuryOf EXCEPT ![f] = TreasuryOf[f]] = TreasuryOf
      /\ [OpenOf EXCEPT ![f] = OpenOf[f]] = OpenOf
      /\ [SizeOf EXCEPT ![f] = SizeOf[f]] = SizeOf
  BY TellFunctions, SamePoint
<1>4. ASSUME UNCHANGED <<member, roster>>
      PROVE  AskedOf' = AskedOf /\ roster' = roster
  BY <1>4 DEF AskedOf
<1>5. ASSUME NEW o \in Owners, NEW list \in SignerLists, NEW n \in Thresholds,
             ConfigureSigners(o, f, list, n)
      PROVE  UNCHANGED Terms!vars
  <2> DEFINE signers == {list[i] : i \in DOMAIN list}
             q == [fleet[f] EXCEPT !.signers = signers, !.signature_threshold = n]
  <2>1. signers \subseteq Addresses /\ n \in Nat
    BY FleetAddresses, FleetNumbers
  <2>2. fleet' = [fleet EXCEPT ![f].signers = signers,
                               ![f].signature_threshold = n]
    BY <1>5 DEF ConfigureSigners
  <2> HIDE DEF signers
  <2>3. /\ q \in FleetProfile /\ q.treasury = fleet[f].treasury
        /\ q.active = fleet[f].active
        /\ q.total_active_drivers = fleet[f].total_active_drivers
    BY <1>1, <2>1 DEF FleetProfile
  <2>4. fleet' = [fleet EXCEPT ![f] = q]
    BY <2>2 DEF TypeOK
  <2> HIDE DEF q
  <2>5. /\ TreasuryOf' = [TreasuryOf EXCEPT ![f] = TreasuryOf[f]]
        /\ OpenOf' = [OpenOf EXCEPT ![f] = OpenOf[f]]
        /\ SizeOf' = [SizeOf EXCEPT ![f] = SizeOf[f]]
    BY <1>2, <2>3, <2>4, ProfileTold
  <2>6. TreasuryOf' = TreasuryOf /\ OpenOf' = OpenOf /\ SizeOf' = SizeOf
    BY <1>3, <2>5
  <2>7. QED
    BY <1>4, <1>5, <2>6 DEF ConfigureSigners, Terms!vars
<1>6. ASSUME NEW c \in Callers, DeactivateFleet(c, f)
      PROVE  Terms!Close(f)
  <2> DEFINE q == [fleet[f] EXCEPT !.active = FALSE]
  <2>1. /\ q \in FleetProfile /\ q.treasury = fleet[f].treasury
        /\ q.active = FALSE
        /\ q.total_active_drivers = fleet[f].total_active_drivers
    BY <1>1 DEF FleetProfile
  <2>2. fleet' = [fleet EXCEPT ![f] = q]
    BY <1>6 DEF DeactivateFleet, TypeOK
  <2> HIDE DEF q
  <2>3. /\ TreasuryOf' = [TreasuryOf EXCEPT ![f] = TreasuryOf[f]]
        /\ OpenOf' = [OpenOf EXCEPT ![f] = FALSE]
        /\ SizeOf' = [SizeOf EXCEPT ![f] = SizeOf[f]]
    BY <1>2, <2>1, <2>2, ProfileTold
  <2>4. TreasuryOf' = TreasuryOf /\ SizeOf' = SizeOf
    BY <1>3, <2>3
  <2>5. QED
    BY <1>4, <1>6, <2>3, <2>4 DEF DeactivateFleet, Terms!Close
<1>7. ASSUME NEW c \in Callers, NEW t \in Treasuries, ProposeTreasury(c, f, t)
      PROVE  Terms!Announce(f, t)
  <2>1. TreasuryOf' = TreasuryOf /\ OpenOf' = OpenOf /\ SizeOf' = SizeOf
    BY <1>7 DEF ProposeTreasury, TreasuryOf, OpenOf, SizeOf
  <2>2. QED
    BY <1>2, <1>4, <1>7, <2>1 DEF ProposeTreasury, Activation, Terms!Announce
<1>8. ASSUME ConfirmTreasury(f)
      PROVE  Terms!TakeEffect(f)
  <2> DEFINE t == pending[f].treasury
             q == [fleet[f] EXCEPT !.treasury = t]
  <2>1. t \in Addresses
    BY <1>8 DEF ConfirmTreasury, PendingTreasuryChange, TypeOK
  <2>2. /\ q \in FleetProfile /\ q.treasury = t
        /\ q.active = fleet[f].active
        /\ q.total_active_drivers = fleet[f].total_active_drivers
    BY <1>1, <2>1 DEF FleetProfile
  <2>3. fleet' = [fleet EXCEPT ![f] = q]
    BY <1>8 DEF ConfirmTreasury, TypeOK
  <2> HIDE DEF q
  <2>4. /\ TreasuryOf' = [TreasuryOf EXCEPT ![f] = t]
        /\ OpenOf' = [OpenOf EXCEPT ![f] = OpenOf[f]]
        /\ SizeOf' = [SizeOf EXCEPT ![f] = SizeOf[f]]
    BY <1>2, <2>2, <2>3, ProfileTold
  <2>5. OpenOf' = OpenOf /\ SizeOf' = SizeOf
    BY <1>3, <2>4
  <2>6. QED
    BY <1>4, <1>8, <2>4, <2>5 DEF ConfirmTreasury, Terms!TakeEffect
<1>9. QED
  BY <1>5, <1>6, <1>7, <1>8 DEF Manage, Terms!Govern

(* A step of a membership asks, withdraws, joins, leaves, or, on a driver  *)
(* who has left before, changes nothing.                                   *)
LEMMA EnrolTold ==
  ASSUME TypeOK, NEW f \in FleetIds, Members(f), NEW d \in Drivers, Enrol(f, d)
  PROVE  Terms!Enrol(f, d) \/ UNCHANGED Terms!vars
<1>1. d \in Addresses /\ Exists(f) /\ fleet[f] \in FleetProfile
  BY ProfileRead, FleetAddresses
     DEF Enrol, AddDriver, CancelInvite, RemoveDriver, AcceptInvite
<1>2. /\ TreasuryOf[f] = fleet[f].treasury /\ OpenOf[f] = fleet[f].active
      /\ SizeOf[f] = fleet[f].total_active_drivers
      /\ fleet[f].active \in BOOLEAN
  BY <1>1 DEF TreasuryOf, OpenOf, SizeOf, Exists, FleetProfile
<1>3. /\ [TreasuryOf EXCEPT ![f] = TreasuryOf[f]] = TreasuryOf
      /\ [OpenOf EXCEPT ![f] = OpenOf[f]] = OpenOf
      /\ [SizeOf EXCEPT ![f] = SizeOf[f]] = SizeOf
      /\ [AskedOf EXCEPT ![f] = AskedOf[f]] = AskedOf
      /\ [roster EXCEPT ![f] = roster[f]] = roster
  <2>1. roster = [g \in FleetIds |-> roster[g]]
    BY DEF TypeOK
  <2>2. QED
    BY <2>1, TellFunctions, SamePoint
<1>4. /\ d \in AskedOf[f] <=> member[f][d] = "Pending"
      /\ d \in roster[f] <=> member[f][d] = "Active"
  BY <1>1 DEF AskedOf, Members
<1>5. ASSUME fleet' = fleet
      PROVE  TreasuryOf' = TreasuryOf /\ OpenOf' = OpenOf /\ SizeOf' = SizeOf
  BY <1>5 DEF TreasuryOf, OpenOf, SizeOf
<1>6. ASSUME NEW n \in Nat, fleet' = [fleet EXCEPT ![f].total_active_drivers = n]
      PROVE  /\ TreasuryOf' = TreasuryOf /\ OpenOf' = OpenOf
             /\ SizeOf' = [SizeOf EXCEPT ![f] = n]
  <2> DEFINE q == [fleet[f] EXCEPT !.total_active_drivers = n]
  <2>1. /\ q \in FleetProfile /\ q.treasury = fleet[f].treasury
        /\ q.active = fleet[f].active /\ q.total_active_drivers = n
    BY <1>1 DEF FleetProfile
  <2>2. fleet' = [fleet EXCEPT ![f] = q]
    BY <1>6 DEF TypeOK
  <2> HIDE DEF q
  <2>3. /\ TreasuryOf' = [TreasuryOf EXCEPT ![f] = TreasuryOf[f]]
        /\ OpenOf' = [OpenOf EXCEPT ![f] = OpenOf[f]]
        /\ SizeOf' = [SizeOf EXCEPT ![f] = n]
    BY <1>2, <2>1, <2>2, ProfileTold
  <2>4. QED
    BY <1>3, <2>3
<1>7. ASSUME NEW c \in Callers, AddDriver(c, f, d)
      PROVE  Terms!Ask(f, d)
  <2>1. AskedOf' = [AskedOf EXCEPT ![f] = AskedOf[f] \cup {d}]
    BY <1>1, <1>7, StatusTold DEF AddDriver
  <2>2. OpenOf[f] /\ d \notin AskedOf[f] \cup roster[f]
    BY <1>2, <1>4, <1>7 DEF AddDriver, Hiring
  <2>3. QED
    BY <1>5, <1>7, <2>1, <2>2 DEF AddDriver, Terms!Ask
<1>8. ASSUME NEW c \in Callers, CancelInvite(c, f, d)
      PROVE  Terms!Withdraw(f, d)
  <2>1. None # "Pending"
    BY FleetRecords DEF Memberships
  <2>2. AskedOf' = [AskedOf EXCEPT ![f] = AskedOf[f] \ {d}]
    BY <1>1, <1>8, <2>1, StatusTold DEF CancelInvite
  <2>3. QED
    BY <1>4, <1>5, <1>8, <2>2 DEF CancelInvite, Terms!Withdraw
<1>9. ASSUME AcceptInvite(f, d)
      PROVE  Terms!Join(f, d)
  <2>1. AskedOf' = [AskedOf EXCEPT ![f] = AskedOf[f] \ {d}]
    <3>1. member' = [member EXCEPT ![f][d] = "Active"] /\ "Active" # "Pending"
      BY <1>9 DEF AcceptInvite
    <3>2. QED
      BY ONLY TypeOK, f \in FleetIds, <1>1, <3>1, StatusTold
  <2>2. fleet[f].total_active_drivers + 1 \in Nat
    BY <1>1 DEF FleetProfile
  <2>3. fleet' = [fleet EXCEPT ![f].total_active_drivers =
                    fleet[f].total_active_drivers + 1]
    BY <1>1, <1>9 DEF AcceptInvite, TypeOK
  <2>4. /\ TreasuryOf' = TreasuryOf /\ OpenOf' = OpenOf
        /\ SizeOf' = [SizeOf EXCEPT ![f] = SizeOf[f] + 1]
    BY <1>2, <1>6, <2>2, <2>3
  <2>5. QED
    BY <1>4, <1>9, <2>1, <2>4 DEF AcceptInvite, Invited, Terms!Join
<1>10. ASSUME NEW c \in Callers, RemoveDriver(c, f, d)
       PROVE  Terms!Leave(f, d) \/ Terms!Withdraw(f, d) \/ UNCHANGED Terms!vars
  <2>1. AskedOf' = [AskedOf EXCEPT ![f] = AskedOf[f] \ {d}]
    <3>1. member' = [member EXCEPT ![f][d] = "Removed"] /\ "Removed" # "Pending"
      BY <1>10 DEF RemoveDriver
    <3>2. QED
      BY ONLY TypeOK, f \in FleetIds, <1>1, <3>1, StatusTold
  <2>2. /\ TreasuryOf' = TreasuryOf /\ OpenOf' = OpenOf
        /\ SizeOf' = [SizeOf EXCEPT ![f] = Headcount(f, d)]
    BY <1>1, <1>6, <1>10, HeadcountNat DEF RemoveDriver
  <2>3. roster' = [roster EXCEPT ![f] = roster[f] \ {d}]
    BY <1>10 DEF RemoveDriver
  <2>4. UNCHANGED <<pending, now>>
    BY <1>10 DEF RemoveDriver
  <2>5. CASE member[f][d] = "Active"
    <3>1. d \notin AskedOf[f] /\ d \in roster[f]
      BY <1>4, <2>5
    <3>2. AskedOf[f] \ {d} = AskedOf[f]
      BY <3>1
    <3>3. AskedOf' = AskedOf
      BY <1>3, <2>1, <3>2
    <3>4. SizeOf[f] > 0
      <4>1. IsFiniteSet(roster[f]) /\ SizeOf[f] = Cardinality(roster[f])
        BY <1>1, <1>2 DEF Members, Exists
      <4>2. QED
        BY <3>1, <4>1, FS_CardinalityType, FS_EmptySet
    <3>5. SizeOf' = [SizeOf EXCEPT ![f] = SizeOf[f] - 1]
      <4>1. Headcount(f, d) = SizeOf[f] - 1
        BY <1>2, <2>5, <3>4 DEF Headcount
      <4>2. QED
        BY <2>2, <4>1
    <3>6. Terms!Leave(f, d)
      BY <2>2, <2>3, <2>4, <3>1, <3>3, <3>5 DEF Terms!Leave
    <3>7. QED
      BY <3>6
  <2>6. CASE member[f][d] # "Active"
    <3>1. d \notin roster[f] /\ Headcount(f, d) = SizeOf[f]
      BY <1>2, <1>4, <2>6 DEF Headcount
    <3>2. roster' = roster /\ SizeOf' = SizeOf
      BY <1>3, <2>2, <2>3, <3>1
    <3>3. CASE d \in AskedOf[f]
      <4>1. Terms!Withdraw(f, d)
        BY <2>1, <2>2, <2>4, <3>2, <3>3 DEF Terms!Withdraw
      <4>2. QED
        BY <4>1
    <3>4. CASE d \notin AskedOf[f]
      <4>1. AskedOf' = AskedOf
        BY <1>3, <2>1, <3>4
      <4>2. QED
        BY <2>2, <2>4, <3>2, <4>1 DEF Terms!vars
    <3>5. QED
      BY <3>3, <3>4
  <2>7. QED
    BY <2>5, <2>6
<1>11. QED
  BY <1>7, <1>8, <1>9, <1>10 DEF Enrol, Terms!Enrol

(* Every step of the contract is one of Charter, or none.                  *)
LEMMA CharterStep ==
  ASSUME TypeOK, Registered, MembersInv, [Next]_vars
  PROVE  [Terms!Next]_Terms!vars
<1>1. ASSUME fleet' = fleet, UNCHANGED <<member, roster, pending>>
      PROVE  /\ TreasuryOf' = TreasuryOf /\ OpenOf' = OpenOf /\ SizeOf' = SizeOf
             /\ AskedOf' = AskedOf
  BY <1>1 DEF TreasuryOf, OpenOf, SizeOf, AskedOf
<1>2. CASE UNCHANGED vars
  BY <1>1, <1>2 DEF vars, Terms!vars
<1>3. CASE Tick
  BY <1>1, <1>3 DEF Tick, Terms!Pass, Terms!Next
<1>4. CASE Administer
  <2>1. ASSUME NEW a \in Admins, InitContract(a)
        PROVE  UNCHANGED Terms!vars
    BY <1>1, <2>1 DEF InitContract, Terms!vars
  <2>2. ASSUME NEW a \in IdentityAddrs, SetIdentityContract(a)
        PROVE  UNCHANGED Terms!vars
    BY <1>1, <2>2 DEF SetIdentityContract, Terms!vars
  <2>3. ASSUME NEW o \in Owners, NEW t \in Treasuries, RegisterFleet(o, t)
        PROVE  Terms!Next
    BY <2>3, RegisterTold DEF Terms!Next, Terms!Govern
  <2>4. QED
    BY <1>4, <2>1, <2>2, <2>3 DEF Administer
<1>5. ASSUME NEW f \in FleetIds, Manage(f)
      PROVE  Terms!Next \/ UNCHANGED Terms!vars
  BY <1>5, ManageTold DEF Terms!Next
<1>6. ASSUME NEW f \in FleetIds, NEW d \in Drivers, Enrol(f, d)
      PROVE  Terms!Next \/ UNCHANGED Terms!vars
  BY <1>6, EnrolTold DEF Terms!Next, MembersInv
<1>7. QED
  BY <1>2, <1>3, <1>4, <1>5, <1>6 DEF Next

(* The fleet contract implements Charter, for any number of fleets,        *)
(* drivers and signers and any timelock.                                   *)
THEOREM ImplementsCharter == Spec => CharterKept
<1>1. Init => Terms!Init
  <2> SUFFICES ASSUME Init PROVE Terms!Init
    OBVIOUS
  <2>1. \A f \in FleetIds : {d \in Addresses : member[f][d] = "Pending"} = {}
    BY FleetRecords DEF Init, Memberships
  <2>2. /\ TreasuryOf = [f \in FleetIds |-> None]
        /\ OpenOf = [f \in FleetIds |-> FALSE]
        /\ AskedOf = [f \in FleetIds |-> {}]
        /\ SizeOf = [f \in FleetIds |-> 0]
    BY <2>1 DEF Init, TreasuryOf, OpenOf, AskedOf, SizeOf
  <2>3. QED
    BY <2>2 DEF Init, Terms!Init
<1>2. TypeOK /\ Registered /\ MembersInv /\ [Next]_vars =>
        [Terms!Next]_Terms!vars
  BY CharterStep
<1>3. QED
  BY <1>1, <1>2, MembersInvariant, PTL DEF Spec, CharterKept, Terms!Spec

=============================================================================
