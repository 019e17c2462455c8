--------------------------- MODULE IdentityProofs ---------------------------
(***************************************************************************)
(* Theorems about module Identity, for every value of its constants.       *)
(***************************************************************************)
EXTENDS Identity, TLAPS

(* The points of a delivery are a natural number.                          *)
LEMMA PointsNat ==
  ASSUME TypeOK, NEW heavy \in BOOLEAN, NEW fragile \in BOOLEAN
  PROVE  Points(heavy, fragile) \in Nat
<1>1. /\ GetReputationConfig.base_points \in Nat
      /\ GetReputationConfig.heavy_cargo_points \in Nat
      /\ GetReputationConfig.fragile_points \in Nat
  <2>1. CASE config = None
    BY <2>1 DEF GetReputationConfig, DefaultConfig
  <2>2. CASE config # None
    BY <2>2, IdentityNumbers DEF GetReputationConfig, ReputationConfig, TypeOK
  <2>3. QED
    BY <2>1, <2>2
<1>2. QED
  BY <1>1 DEF Points

(* Raising a score neither lowers it nor passes the maximum, and lowering  *)
(* it does not go below zero.                                              *)
LEMMA ScoreBounds ==
  ASSUME NEW score \in 0..MAX_REPUTATION, NEW points \in Nat
  PROVE  /\ Raised(score, points) \in score..MAX_REPUTATION
         /\ Lowered(score, points) \in 0..score
BY DEF Raised, Lowered, MAX_REPUTATION

(* What one step of a driver's profile does: it stays a profile, touches   *)
(* no other, and is the old one, earned upon.                              *)
LEMMA JudgeProfile ==
  ASSUME TypeOK, NEW d \in Drivers, Judge(d)
  PROVE  /\ driver' = [driver EXCEPT ![d] = driver'[d]]
         /\ driver'[d] \in DriverProfile
         /\ driver[d] # None => Earned(driver[d], driver'[d])
         /\ UNCHANGED <<admin, accessVars, config, joined, now>>
<1> DEFINE Result ==
      /\ driver' = [driver EXCEPT ![d] = driver'[d]]
      /\ driver'[d] \in DriverProfile
      /\ driver[d] # None => Earned(driver[d], driver'[d])
      /\ UNCHANGED <<admin, accessVars, config, joined, now>>
<1>0. d \in Addresses
  BY IdentityAddresses
<1>1. ASSUME NEW verified \in BOOLEAN, UpdateDriverKycStatus(d, verified)
      PROVE  Result
  <2>1. driver[d] \in DriverProfile
    BY <1>0, <1>1 DEF UpdateDriverKycStatus, TypeOK
  <2>2. driver' = [driver EXCEPT ![d].kyc_verified = verified]
    BY <1>1 DEF UpdateDriverKycStatus
  <2>3. /\ driver'[d] \in DriverProfile
        /\ driver'[d].registered_at = driver[d].registered_at
        /\ driver'[d].deliveries_completed = driver[d].deliveries_completed
        /\ driver'[d].reputation_score = driver[d].reputation_score
    BY <1>0, <2>1, <2>2 DEF DriverProfile, TypeOK
  <2>4. driver[d].reputation_score \in Int
    BY <2>1 DEF DriverProfile
  <2>5. Earned(driver[d], driver'[d])
    BY <2>3, <2>4, IdentityRecords DEF Earned
  <2>6. QED
    BY <1>0, <1>1, <2>2, <2>3, <2>5 DEF UpdateDriverKycStatus, TypeOK
<1>2. CASE RegisterDriver(d)
  <2> DEFINE profile == [deliveries_completed |-> 0,
                         reputation_score |-> INITIAL_REPUTATION,
                         registered_at |-> now, kyc_verified |-> FALSE]
  <2>1. profile \in DriverProfile
    BY DEF DriverProfile, INITIAL_REPUTATION, MAX_REPUTATION, TypeOK
  <2>2. driver' = [driver EXCEPT ![d] = profile] /\ driver[d] = None
    BY <1>2 DEF RegisterDriver, Unregistered
  <2> HIDE DEF profile
  <2>3. QED
    BY <1>0, <1>2, <2>1, <2>2 DEF RegisterDriver, TypeOK
<1>3. ASSUME NEW c \in Contracts, NEW heavy \in BOOLEAN, NEW fragile \in BOOLEAN,
             IncreaseReputation(c, d, heavy, fragile)
      PROVE  Result
  <2> DEFINE score == Raised(driver[d].reputation_score, Points(heavy, fragile))
             count == driver[d].deliveries_completed + 1
  <2>1. driver[d] \in DriverProfile
    BY <1>0, <1>3 DEF IncreaseReputation, TypeOK
  <2>2. /\ driver[d].reputation_score \in 0..MAX_REPUTATION
        /\ driver[d].deliveries_completed \in Nat
    BY <2>1 DEF DriverProfile
  <2>3. score \in driver[d].reputation_score..MAX_REPUTATION
    BY <2>2, PointsNat, ScoreBounds
  <2>4. /\ score \in 0..MAX_REPUTATION /\ score >= driver[d].reputation_score
        /\ count \in Nat
    BY <2>2, <2>3 DEF MAX_REPUTATION
  <2>5. driver' = [driver EXCEPT ![d].reputation_score = score,
                                 ![d].deliveries_completed = count]
    BY <1>3 DEF IncreaseReputation
  <2> HIDE DEF score
  <2>6. /\ driver'[d] \in DriverProfile
        /\ driver'[d].registered_at = driver[d].registered_at
        /\ driver'[d].deliveries_completed = count
        /\ driver'[d].reputation_score = score
    BY <1>0, <2>1, <2>4, <2>5 DEF DriverProfile, TypeOK
  <2>7. Earned(driver[d], driver'[d])
    BY <2>4, <2>6, IdentityRecords DEF Earned
  <2>8. QED
    BY <1>0, <1>3, <2>5, <2>6, <2>7 DEF IncreaseReputation, TypeOK
<1>4. ASSUME NEW c \in Contracts, NEW points \in Penalties,
             DecreaseReputation(c, d, points)
      PROVE  Result
  <2> DEFINE score == Lowered(driver[d].reputation_score, points)
  <2>1. driver[d] \in DriverProfile
    BY <1>0, <1>4 DEF DecreaseReputation, TypeOK
  <2>2. driver[d].reputation_score \in 0..MAX_REPUTATION /\ points \in Nat
    BY <2>1, IdentityNumbers DEF DriverProfile
  <2>3. score \in 0..driver[d].reputation_score
    BY <2>2, ScoreBounds
  <2>4. score \in 0..MAX_REPUTATION /\ score <= driver[d].reputation_score
    BY <2>2, <2>3 DEF MAX_REPUTATION
  <2>5. driver' = [driver EXCEPT ![d].reputation_score = score]
    BY <1>4 DEF DecreaseReputation
  <2> HIDE DEF score
  <2>6. /\ driver'[d] \in DriverProfile
        /\ driver'[d].registered_at = driver[d].registered_at
        /\ driver'[d].deliveries_completed = driver[d].deliveries_completed
        /\ driver'[d].reputation_score = score
    BY <1>0, <2>1, <2>4, <2>5 DEF DriverProfile, TypeOK
  <2>7. Earned(driver[d], driver'[d])
    BY <2>4, <2>6, IdentityRecords DEF Earned
  <2>8. QED
    BY <1>0, <1>4, <2>5, <2>6, <2>7 DEF DecreaseReputation, TypeOK
<1>5. QED
  BY <1>1, <1>2, <1>3, <1>4 DEF Judge

(* Steps of the admin, of users and of the clock leave profiles alone.     *)
LEMMA OtherSteps ==
  ASSUME TypeOK, Administer \/ (\E a \in Users : RegisterUser(a)) \/ Tick
  PROVE  driver' = driver /\ TypeOK'
<1>1. CASE Administer
  <2>1. driver' = driver /\ joined' = joined /\ now' = now
    BY <1>1 DEF Administer, InitContract, SetAuthorizedContract,
       SetDeliveryContract, SetDisputeContract, SetReputationConfig, profileVars
  <2>2. admin' \in Addresses \cup {None} /\ config' \in ReputationConfig \cup {None}
    BY <1>1, IdentityAddresses, IdentityRecords
       DEF Administer, InitContract, SetAuthorizedContract,
       SetDeliveryContract, SetDisputeContract, SetReputationConfig, TypeOK
  <2>3. /\ authorized' \subseteq Addresses
        /\ deliveryContract' \in Addresses \cup {None}
        /\ disputeContract' \in Addresses \cup {None}
    BY <1>1, IdentityAddresses
       DEF Administer, InitContract, SetAuthorizedContract, accessVars,
       SetDeliveryContract, SetDisputeContract, SetReputationConfig, TypeOK
  <2>4. QED
    BY <2>1, <2>2, <2>3 DEF TypeOK
<1>2. CASE \E a \in Users : RegisterUser(a)
  BY <1>2, IdentityAddresses DEF RegisterUser, accessVars, TypeOK
<1>3. CASE Tick
  BY <1>3, IdentityNumbers DEF Tick, accessVars, profileVars, TypeOK
<1>4. QED
  BY <1>1, <1>2, <1>3

(* Every step keeps the types and lets profiles only be earned upon.       *)
LEMMA IdentityStep ==
  ASSUME TypeOK, [Next]_vars
  PROVE  /\ TypeOK'
         /\ \A d \in Addresses :
              driver[d] # None => Earned(driver[d], driver'[d])
<1>1. ASSUME driver' = driver
      PROVE  \A d \in Addresses :
               driver[d] # None => Earned(driver[d], driver'[d])
  <2> SUFFICES ASSUME NEW d \in Addresses, driver[d] # None
               PROVE  Earned(driver[d], driver'[d])
    OBVIOUS
  <2>1. driver[d].reputation_score \in Int
    BY DEF TypeOK, DriverProfile
  <2>2. QED
    BY <1>1, <2>1 DEF Earned
<1>2. CASE UNCHANGED vars
  BY <1>1, <1>2 DEF vars, accessVars, profileVars, TypeOK
<1>3. ASSUME NEW d \in Drivers, Judge(d)
      PROVE  /\ TypeOK'
             /\ \A e \in Addresses :
                  driver[e] # None => Earned(driver[e], driver'[e])
  <2>1. TypeOK'
    BY <1>3, JudgeProfile, IdentityAddresses DEF accessVars, TypeOK
  <2>2. ASSUME NEW e \in Addresses, driver[e] # None
        PROVE  Earned(driver[e], driver'[e])
    <3>1. CASE e = d
      BY <1>3, <2>2, <3>1, JudgeProfile
    <3>2. CASE e # d
      <4>1. driver'[e] = driver[e]
        BY <1>3, <3>2, JudgeProfile DEF TypeOK
      <4>2. driver[e].reputation_score \in Int
        BY <2>2 DEF TypeOK, DriverProfile
      <4>3. QED
        BY <2>2, <4>1, <4>2 DEF Earned
    <3>3. QED
      BY <3>1, <3>2
  <2>3. QED
    BY <2>1, <2>2
<1>4. QED
  BY <1>1, <1>2, <1>3, OtherSteps DEF Next

(* The types hold at first.                                                *)
LEMMA IdentityInit == Init => TypeOK
BY DEF Init, TypeOK

(* Every variable of the identity contract keeps its type; scores stay     *)
(* between 0 and MAX_REPUTATION whatever points the admin configures.      *)
THEOREM IdentityTypeCorrect == Spec => []TypeOK
<1>1. TypeOK /\ [Next]_vars => TypeOK'
  BY IdentityStep
<1>2. QED
  BY <1>1, IdentityInit, PTL DEF Spec

(* Profiles are never dropped or replaced, scores rise only with a counted *)
(* delivery, and a counted delivery never lowers one, for any width of     *)
(* integers and any configuration.                                         *)
THEOREM ReputationIsEarned == Spec => ReputationEarned
<1> DEFINE Kept == \A d \in Addresses :
                     driver[d] # None => Earned(driver[d], driver'[d])
<1>1. TypeOK /\ [Next]_vars => [Kept]_vars
  BY IdentityStep
<1>2. Spec => [][Kept]_vars
  <2> HIDE DEF Kept
  <2>1. QED
    BY <1>1, IdentityTypeCorrect, PTL DEF Spec
<1>3. QED
  BY <1>2 DEF ReputationEarned

=============================================================================
