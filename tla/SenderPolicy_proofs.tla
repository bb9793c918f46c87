------------------------- MODULE SenderPolicy_proofs -------------------------
(***************************************************************************)
(* Proofs about SenderPolicy, for any number of users, credentials and     *)
(* registrations of a name.                                                *)
(***************************************************************************)
EXTENDS SenderPolicy, FiniteSetTheorems, TLAPS

-----------------------------------------------------------------------------
(* Types and foreign keys.                                                 *)

\* Every request keeps the column types and the foreign keys.
LEMMA PolicyStepType == PolicyTypeOK /\ [PolicyNext]_policyVars => PolicyTypeOK'
<1> SUFFICES ASSUME PolicyTypeOK, [PolicyNext]_policyVars
             PROVE  PolicyTypeOK'
  OBVIOUS
<1> USE DEF PolicyTypeOK, LiveStatuses
<1> USE DEF underWay
<1>1. CASE DomainRequest
  BY <1>1 DEF DomainRequest, CreateDomain, SetDomainStatus, DeleteDomain, PutSMTPConfig, Live
<1>2. CASE AddressRequest
  <2>1. ASSUME NEW d \in Domains, CreateAddress(d)
        PROVE  PolicyTypeOK'
    BY <2>1 DEF CreateAddress, Live
  <2>2. ASSUME NEW d \in Domains, DeleteAddress(d)
        PROVE  PolicyTypeOK'
    BY <2>2 DEF DeleteAddress, ExactGrants, ExactScopes, Live
  <2>3. ASSUME NEW q \in clearing, DeleteAddressCommit(q)
        PROVE  PolicyTypeOK'
    BY <2>3 DEF DeleteAddressCommit
  <2>4. QED
    BY <1>2, <2>1, <2>2, <2>3 DEF AddressRequest
<1>3. CASE GrantRequest
  <2>1. ASSUME NEW u \in Users, NEW d \in Domains, NEW a \in AddressForms, CheckGrant(u, d, a)
        PROVE  PolicyTypeOK'
    BY <2>1 DEF CheckGrant, Live
  <2>2. ASSUME NEW u \in Users, NEW d \in Domains, NEW a \in AddressForms, DeleteGrant(u, d, a)
        PROVE  PolicyTypeOK'
    BY <2>2 DEF DeleteGrant
  <2>3. ASSUME NEW g \in granting, CreateGrant(g)
        PROVE  PolicyTypeOK'
    BY <2>3 DEF CreateGrant
  <2>4. QED
    BY <1>3, <2>1, <2>2, <2>3 DEF GrantRequest
<1>4. CASE CredentialRequest
  <2>1. ASSUME NEW c \in Credentials, NEW list \in ScopeLists(c),
               CreateCredential(c, list) \/ UpdateCredentialScopes(c, list)
        PROVE  PolicyTypeOK'
    <3>1. list \subseteq {c} \X {d \in Domains : status[d] # "unused"} \X AddressForms
      BY DEF ScopeLists, ValidScope
    <3>2. QED
      BY <2>1, <3>1 DEF CreateCredential, UpdateCredentialScopes
  <2>2. ASSUME NEW c \in Credentials, RevokeCredential(c) \/ ExpireCredential(c)
        PROVE  PolicyTypeOK'
    BY <2>2 DEF RevokeCredential, ExpireCredential
  <2>3. QED
    BY <1>4, <2>1, <2>2 DEF CredentialRequest
<1>5. CASE UserRequest
  BY <1>5 DEF UserRequest, SetUserActive
<1>6. CASE UNCHANGED policyVars
  BY <1>6 DEF policyVars
<1>7. QED
  BY <1>1, <1>2, <1>3, <1>4, <1>5, <1>6 DEF PolicyNext

\* The tables keep their column types and foreign keys in every history of
\* management requests.
THEOREM PolicyTypeCorrect == PolicySpec => []PolicyTypeOK
<1>1. PolicyInit => PolicyTypeOK
  BY DEF PolicyInit, PolicyTypeOK, LiveStatuses
<1>2. QED
  BY <1>1, PolicyStepType, PTL DEF PolicySpec

-----------------------------------------------------------------------------
(* At most one domain to route through.                                    *)

\* What the unique index on active_name guarantees.
OneLive == \A d, e \in Domains : Live(d) /\ Live(e) => d = e

\* Only create_domain makes a registration live, and it asks the index first.
LEMMA OneLiveStep == PolicyTypeOK /\ OneLive /\ [PolicyNext]_policyVars => OneLive'
<1> SUFFICES ASSUME PolicyTypeOK, OneLive, [PolicyNext]_policyVars
             PROVE  OneLive'
  OBVIOUS
<1>1. ASSUME NEW d \in Domains, CreateDomain(d)
      PROVE  OneLive'
  BY <1>1 DEF CreateDomain, OneLive, Live, LiveStatuses, PolicyTypeOK
<1>2. ASSUME NEW d \in Domains, NEW verdict \in {"approved", "rejected"},
             SetDomainStatus(d, verdict)
      PROVE  OneLive'
  BY <1>2 DEF SetDomainStatus, OneLive, Live, LiveStatuses, PolicyTypeOK
<1>3. ASSUME NEW d \in Domains, DeleteDomain(d)
      PROVE  OneLive'
  BY <1>3 DEF DeleteDomain, OneLive, Live, LiveStatuses, PolicyTypeOK
<1>4. CASE UNCHANGED status
  BY <1>4 DEF OneLive, Live
<1>5. UNCHANGED status \/ DomainRequest
  BY DEF PolicyNext, AddressRequest, GrantRequest, CredentialRequest, UserRequest,
         CreateAddress, DeleteAddress, DeleteAddressCommit, CheckGrant, CreateGrant,
         DeleteGrant, CreateCredential, UpdateCredentialScopes, RevokeCredential,
         ExpireCredential, SetUserActive, policyVars
<1>6. QED
  BY <1>1, <1>2, <1>3, <1>4, <1>5 DEF DomainRequest, PutSMTPConfig

\* authorize_sender's statement never returns two rows, whatever registrations,
\* grants and scopes have accumulated.
THEOREM OneRouteOnly == PolicySpec => []OneRoute
<1>1. PolicyInit => PolicyTypeOK /\ OneLive
  BY DEF PolicyInit, PolicyTypeOK, OneLive, Live, LiveStatuses
<1>2. PolicyTypeOK /\ OneLive /\ [PolicyNext]_policyVars => (PolicyTypeOK /\ OneLive)'
  BY PolicyStepType, OneLiveStep
<1>3. OneLive => OneRoute
  <2> SUFFICES ASSUME OneLive, NEW c \in Credentials
               PROVE  Cardinality(AuthorizedDomains(c)) <= 1
    BY DEF OneRoute
  <2>1. \A d, e \in AuthorizedDomains(c) : d = e
    BY DEF AuthorizedDomains, OneLive, Live, LiveStatuses
  <2>2. CASE AuthorizedDomains(c) = {}
    BY <2>2, FS_EmptySet
  <2>3. CASE AuthorizedDomains(c) # {}
    <3>1. PICK d : d \in AuthorizedDomains(c)
      BY <2>3
    <3>2. AuthorizedDomains(c) = {d}
      BY <2>1, <3>1
    <3>3. QED
      BY <3>2, FS_Singleton
  <2>4. QED
    BY <2>2, <2>3
<1>4. QED
  BY <1>1, <1>2, <1>3, PTL DEF PolicySpec

-----------------------------------------------------------------------------
(* Exact grants and their addresses.                                       *)

\* While a delete_address is under way, the exact grants of its registration
\* are those it has deleted and those committed past it.
ClearingCovers ==
    \A q \in clearing, u \in Users :
        <<u, q.domain, "exact">> \in grants => <<u, q.domain, "exact">> \in q.grants \cup overtaken

GrantInv == PolicyTypeOK /\ StrayGrantsWereOvertaken /\ ClearingCovers

\* Only the two requests on addresses disturb it; the commit of create_grant
\* notes what it commits past.
LEMMA GrantStep == GrantInv /\ [PolicyNext]_policyVars => GrantInv'
<1> SUFFICES ASSUME GrantInv, [PolicyNext]_policyVars
             PROVE  StrayGrantsWereOvertaken' /\ ClearingCovers'
  BY PolicyStepType DEF GrantInv
<1> USE DEF GrantInv, StrayGrantsWereOvertaken, ClearingCovers
<1>1. ASSUME NEW d \in Domains, CreateAddress(d)
      PROVE  StrayGrantsWereOvertaken' /\ ClearingCovers'
  BY <1>1 DEF CreateAddress, underWay
<1>2. ASSUME NEW d \in Domains, DeleteAddress(d)
      PROVE  StrayGrantsWereOvertaken' /\ ClearingCovers'
  <2>1. \A u \in Users : <<u, d, "exact">> \in grants => <<u, d, "exact">> \in ExactGrants(d)
    BY DEF ExactGrants
  <2>2. QED
    BY <1>2, <2>1 DEF DeleteAddress
<1>3. ASSUME NEW q \in clearing, DeleteAddressCommit(q)
      PROVE  StrayGrantsWereOvertaken' /\ ClearingCovers'
  BY <1>3 DEF DeleteAddressCommit
<1>4. ASSUME NEW g \in granting, CreateGrant(g)
      PROVE  StrayGrantsWereOvertaken' /\ ClearingCovers'
  <2>1. /\ grants' = grants \cup {g} /\ registered' = registered /\ clearing' = clearing
        /\ overtaken \subseteq overtaken' /\ (Overtaken(g) => g \in overtaken')
    BY <1>4 DEF CreateGrant
  <2>2. ASSUME NEW u \in Users, NEW d \in Domains, g = <<u, d, "exact">>,
               d \notin registered \/ \E q \in clearing : q.domain = d
        PROVE  g \in overtaken'
    BY <2>1, <2>2 DEF Overtaken
  <2>3. \A q \in clearing : q.domain \in Domains
    BY DEF PolicyTypeOK
  <2>4. StrayGrantsWereOvertaken'
    BY <2>1, <2>2
  <2>5. QED
    BY <2>1, <2>2, <2>3, <2>4
<1>5. ASSUME NEW u \in Users, NEW d \in Domains, NEW a \in AddressForms, DeleteGrant(u, d, a)
      PROVE  StrayGrantsWereOvertaken' /\ ClearingCovers'
  BY <1>5 DEF DeleteGrant
<1>6. CASE UNCHANGED <<registered, grants, clearing, overtaken>>
  BY <1>6
<1>7. UNCHANGED <<registered, grants, clearing, overtaken>> \/ AddressRequest \/ GrantRequest
  BY DEF PolicyNext, DomainRequest, CredentialRequest, UserRequest, CreateDomain,
         SetDomainStatus, DeleteDomain, PutSMTPConfig, CreateCredential,
         UpdateCredentialScopes, RevokeCredential, ExpireCredential, SetUserActive,
         policyVars, underWay
<1>8. ASSUME NEW u \in Users, NEW d \in Domains, NEW a \in AddressForms, CheckGrant(u, d, a)
      PROVE  UNCHANGED <<registered, grants, clearing, overtaken>>
  BY <1>8 DEF CheckGrant
<1>9. QED
  BY <1>1, <1>2, <1>3, <1>4, <1>5, <1>6, <1>7, <1>8 DEF AddressRequest, GrantRequest

\* No order of create_address, create_grant, delete_grant and delete_address, on
\* this or on an earlier registration of the name, leaves an exact grant without
\* its address, but for a create_grant and a delete_address under way together.
THEOREM OnlyOvertakenGrantsAreStray == PolicySpec => []StrayGrantsWereOvertaken
<1>1. PolicyInit => GrantInv
  BY DEF PolicyInit, GrantInv, PolicyTypeOK, LiveStatuses, StrayGrantsWereOvertaken, ClearingCovers
<1>2. GrantInv => StrayGrantsWereOvertaken
  BY DEF GrantInv
<1>3. QED
  BY <1>1, <1>2, GrantStep, PTL DEF PolicySpec

-----------------------------------------------------------------------------
(* Revocation and deletion.                                                *)

\* No request un-revokes a credential or brings a deleted registration back.
LEMMA EndsAreFinal ==
    ASSUME PolicyTypeOK, [PolicyNext]_policyVars
    PROVE  /\ \A c \in Credentials : token[c] = "revoked" => token'[c] = "revoked"
           /\ \A d \in Domains : status[d] = "deleted" => status'[d] = "deleted"
<1>1. CASE DomainRequest
  BY <1>1 DEF DomainRequest, CreateDomain, SetDomainStatus, DeleteDomain, PutSMTPConfig,
              Live, LiveStatuses, PolicyTypeOK
<1>2. CASE CredentialRequest
  BY <1>2 DEF CredentialRequest, CreateCredential, UpdateCredentialScopes,
              RevokeCredential, ExpireCredential, PolicyTypeOK
<1>3. CASE AddressRequest \/ GrantRequest \/ UserRequest \/ UNCHANGED policyVars
  BY <1>3 DEF AddressRequest, GrantRequest, UserRequest, CreateAddress, DeleteAddress,
              DeleteAddressCommit, CheckGrant, CreateGrant, DeleteGrant, SetUserActive, policyVars
<1>4. QED
  BY <1>1, <1>2, <1>3 DEF PolicyNext

\* Once revoked a credential is never authorized again, and once deleted a
\* registration is never routed through again, by any sequence of requests.
THEOREM RevocationIsForever == PolicySpec => RevocationIsFinal
<1>1. PolicyTypeOK /\ [PolicyNext]_policyVars => [NothingRevives]_policyVars
  <2> SUFFICES ASSUME PolicyTypeOK, [PolicyNext]_policyVars
               PROVE  NothingRevives
    OBVIOUS
  <2>1. ASSUME NEW c \in Credentials, token[c] = "revoked"
        PROVE  AuthorizedDomains(c)' = {}
    BY <2>1, EndsAreFinal DEF AuthorizedDomains, Authentic
  <2>2. ASSUME NEW c \in Credentials, NEW d \in Domains, status[d] = "deleted"
        PROVE  d \notin AuthorizedDomains(c)'
    BY <2>2, EndsAreFinal DEF AuthorizedDomains
  <2>3. QED
    BY <2>1, <2>2 DEF NothingRevives
<1>2. QED
  BY <1>1, PolicyTypeCorrect, PTL DEF PolicySpec, RevocationIsFinal
=============================================================================
