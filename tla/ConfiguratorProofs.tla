------------------------- MODULE ConfiguratorProofs -------------------------
(***************************************************************************)
(* Proofs about ConfigureRuntime for every bound on runs and failures.     *)
(***************************************************************************)
EXTENDS Configurator, TLAPS

(***************************************************************************)
(* ConfiguredWithOwnToken is not inductive: the step that ends a call only *)
(* writes the compass-system secret, and relies on the kyma-system secret  *)
(* having been written by the same call.  KymaWritten says that once the  *)
(* call works on the legacy namespace, the kyma-system secret holds its   *)
(* token; nothing but this call writes the secrets.  A call fetches its   *)
(* token before it works on any namespace.                                *)
(***************************************************************************)
KymaWritten ==
    /\ pc = "token" => ns = 1
    /\ pc \in {"client", "namespace", "create", "update", "done"} /\ ns = 2
         => secret[1] = token

\* ns is 2 once the call is done.
DoneLegacy == pc = "done" => ns = 2

CInv == TypeOK /\ KymaWritten /\ DoneLegacy /\ ConfiguredWithOwnToken

USE ConfiguratorAssumption

\* The initial state satisfies the inductive invariant.
LEMMA InitCInv == Init => CInv
BY DEF Init, CInv, TypeOK, PCs, NsIndex, NoToken, KymaWritten, DoneLegacy,
       ConfiguredWithOwnToken

\* Every step of ConfigureRuntime and of its caller preserves it.
LEMMA NextCInv == CInv /\ [Next]_vars => CInv'
<1> SUFFICES ASSUME CInv, [Next]_vars PROVE CInv'
  OBVIOUS
<1> USE DEF CInv
<1>1. CASE Call
  <2>1. TypeOK'
    BY <1>1 DEF Call, TypeOK, PCs, NsIndex, NoToken
  <2>2. KymaWritten'
    BY <1>1 DEF Call, KymaWritten, TypeOK
  <2>3. DoneLegacy'
    BY <1>1 DEF Call, DoneLegacy, TypeOK
  <2>4. ConfiguredWithOwnToken'
    BY <1>1 DEF Call, ConfiguredWithOwnToken, TypeOK, KymaWritten, DoneLegacy
  <2>5. QED
    BY <2>1, <2>2, <2>3, <2>4
<1>2. CASE GetConnectionToken
  <2>1. TypeOK'
    BY <1>2 DEF GetConnectionToken, TypeOK, PCs, NsIndex, NoToken
  <2>2. KymaWritten'
    BY <1>2 DEF GetConnectionToken, KymaWritten, TypeOK
  <2>3. DoneLegacy'
    BY <1>2 DEF GetConnectionToken, DoneLegacy, TypeOK
  <2>4. ConfiguredWithOwnToken'
    BY <1>2 DEF GetConnectionToken, ConfiguredWithOwnToken, TypeOK, KymaWritten, DoneLegacy
  <2>5. QED
    BY <2>1, <2>2, <2>3, <2>4
<1>3. CASE GetConnectionTokenFail
  <2>1. TypeOK'
    BY <1>3 DEF GetConnectionTokenFail, Fault, TokenAttempts, TypeOK, PCs, NsIndex, NoToken
  <2>2. KymaWritten'
    BY <1>3 DEF GetConnectionTokenFail, Fault, TokenAttempts, KymaWritten, TypeOK
  <2>3. DoneLegacy'
    BY <1>3 DEF GetConnectionTokenFail, Fault, TokenAttempts, DoneLegacy, TypeOK
  <2>4. ConfiguredWithOwnToken'
    BY <1>3 DEF GetConnectionTokenFail, Fault, TokenAttempts, ConfiguredWithOwnToken, TypeOK, KymaWritten, DoneLegacy
  <2>5. QED
    BY <2>1, <2>2, <2>3, <2>4
<1>4. CASE CreateK8SClient
  <2>1. TypeOK'
    BY <1>4 DEF CreateK8SClient, TypeOK, PCs, NsIndex, NoToken
  <2>2. KymaWritten'
    BY <1>4 DEF CreateK8SClient, KymaWritten, TypeOK
  <2>3. DoneLegacy'
    BY <1>4 DEF CreateK8SClient, DoneLegacy, TypeOK
  <2>4. ConfiguredWithOwnToken'
    BY <1>4 DEF CreateK8SClient, ConfiguredWithOwnToken, TypeOK, KymaWritten, DoneLegacy
  <2>5. QED
    BY <2>1, <2>2, <2>3, <2>4
<1>5. CASE CreateNamespace
  <2>1. TypeOK'
    BY <1>5 DEF CreateNamespace, TypeOK, PCs, NsIndex, NoToken
  <2>2. KymaWritten'
    BY <1>5 DEF CreateNamespace, KymaWritten, TypeOK
  <2>3. DoneLegacy'
    BY <1>5 DEF CreateNamespace, DoneLegacy, TypeOK
  <2>4. ConfiguredWithOwnToken'
    BY <1>5 DEF CreateNamespace, ConfiguredWithOwnToken, TypeOK, KymaWritten, DoneLegacy
  <2>5. QED
    BY <2>1, <2>2, <2>3, <2>4
<1>6. CASE CreateNamespaceFail
  <2>1. TypeOK'
    BY <1>6 DEF CreateNamespaceFail, Fault, NamespaceAttempts, TypeOK, PCs, NsIndex, NoToken
  <2>2. KymaWritten'
    BY <1>6 DEF CreateNamespaceFail, Fault, NamespaceAttempts, KymaWritten, TypeOK
  <2>3. DoneLegacy'
    BY <1>6 DEF CreateNamespaceFail, Fault, NamespaceAttempts, DoneLegacy, TypeOK
  <2>4. ConfiguredWithOwnToken'
    BY <1>6 DEF CreateNamespaceFail, Fault, NamespaceAttempts, ConfiguredWithOwnToken, TypeOK, KymaWritten, DoneLegacy
  <2>5. QED
    BY <2>1, <2>2, <2>3, <2>4
<1>7. CASE CreateSecret
  <2>1. CASE secret[ns] = NoToken /\ ns = 1
    <3>1. secret' = [secret EXCEPT ![1] = token] /\ ns' = 2 /\ pc' = "client"
          /\ UNCHANGED <<token, tries, issued, calls, faults>>
      BY <1>7, <2>1 DEF CreateSecret, Advance
    <3>2. QED
      BY <3>1 DEF TypeOK, PCs, NsIndex, NoToken, KymaWritten, DoneLegacy,
                 ConfiguredWithOwnToken
  <2>2. CASE secret[ns] = NoToken /\ ns = 2
    <3>1. secret' = [secret EXCEPT ![2] = token] /\ ns' = 2 /\ pc' = "done"
          /\ pc = "create" /\ UNCHANGED <<token, tries, issued, calls, faults>>
      BY <1>7, <2>2 DEF CreateSecret, Advance
    <3>2. QED
      BY <3>1, <2>2 DEF TypeOK, PCs, NsIndex, NoToken, KymaWritten, DoneLegacy,
                 ConfiguredWithOwnToken
  <2>3. CASE secret[ns] # NoToken
    <3>1. pc' = "update" /\ pc = "create"
          /\ UNCHANGED <<ns, secret, token, tries, issued, calls, faults>>
      BY <1>7, <2>3 DEF CreateSecret
    <3>2. QED
      BY <3>1 DEF TypeOK, PCs, NsIndex, NoToken, KymaWritten, DoneLegacy,
                 ConfiguredWithOwnToken
  <2>4. QED
    BY <2>1, <2>2, <2>3 DEF TypeOK, NsIndex
<1>8. CASE UpdateSecret
  <2>1. CASE ns = 1
    <3>1. secret' = [secret EXCEPT ![1] = token] /\ ns' = 2 /\ pc' = "client"
          /\ UNCHANGED <<token, tries, issued, calls, faults>>
      BY <1>8, <2>1 DEF UpdateSecret, Advance
    <3>2. QED
      BY <3>1 DEF TypeOK, PCs, NsIndex, NoToken, KymaWritten, DoneLegacy,
                 ConfiguredWithOwnToken
  <2>2. CASE ns = 2
    <3>1. secret' = [secret EXCEPT ![2] = token] /\ ns' = 2 /\ pc' = "done"
          /\ pc = "update" /\ UNCHANGED <<token, tries, issued, calls, faults>>
      BY <1>8, <2>2 DEF UpdateSecret, Advance
    <3>2. QED
      BY <3>1, <2>2 DEF TypeOK, PCs, NsIndex, NoToken, KymaWritten, DoneLegacy,
                 ConfiguredWithOwnToken
  <2>3. QED
    BY <2>1, <2>2 DEF TypeOK, NsIndex
<1>9. CASE ClusterCallFail
  <2>1. TypeOK'
    BY <1>9 DEF ClusterCallFail, Fault, TypeOK, PCs, NsIndex, NoToken
  <2>2. KymaWritten'
    BY <1>9 DEF ClusterCallFail, Fault, KymaWritten, TypeOK
  <2>3. DoneLegacy'
    BY <1>9 DEF ClusterCallFail, Fault, DoneLegacy, TypeOK
  <2>4. ConfiguredWithOwnToken'
    BY <1>9 DEF ClusterCallFail, Fault, ConfiguredWithOwnToken, TypeOK, KymaWritten, DoneLegacy
  <2>5. QED
    BY <2>1, <2>2, <2>3, <2>4
<1>10. CASE Restart
  <2>1. TypeOK'
    BY <1>10 DEF Restart, Fault, TypeOK, PCs, NsIndex, NoToken
  <2>2. KymaWritten'
    BY <1>10 DEF Restart, Fault, KymaWritten, TypeOK
  <2>3. DoneLegacy'
    BY <1>10 DEF Restart, Fault, DoneLegacy, TypeOK
  <2>4. ConfiguredWithOwnToken'
    BY <1>10 DEF Restart, Fault, ConfiguredWithOwnToken, TypeOK, KymaWritten, DoneLegacy
  <2>5. QED
    BY <2>1, <2>2, <2>3, <2>4
<1>11. CASE UNCHANGED vars
  BY <1>11 DEF vars, TypeOK, KymaWritten, DoneLegacy, ConfiguredWithOwnToken
<1>12. QED
  BY <1>1, <1>2, <1>3, <1>4, <1>5, <1>6, <1>7, <1>8, <1>9, <1>10, <1>11
     DEF Next

\* Whatever calls failed half-way or were cut by a restart before, a call
\* of ConfigureRuntime that returns nil has written the token it fetched
\* into the secrets of both namespaces (lines 48-70 with upsertSecret's
\* Update, lines 134-148).
THEOREM ConfiguredCorrect == Spec => []ConfiguredWithOwnToken
<1>1. CInv => ConfiguredWithOwnToken
  BY DEF CInv
<1>2. QED
  BY <1>1, InitCInv, NextCInv, PTL DEF Spec

\* The configurator's variables keep their types.
THEOREM ConfiguratorTypeCorrect == Spec => []TypeOK
<1>1. CInv => TypeOK
  BY DEF CInv
<1>2. QED
  BY <1>1, InitCInv, NextCInv, PTL DEF Spec

=============================================================================
