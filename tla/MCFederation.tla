----------------------------- MODULE MCFederation -----------------------------
(* Instances of Federation: an OIDC backend b1 whose metadata is fetched and *)
(* a second one that users write as LDAP, SAML or OIDC of a clashing name.   *)
EXTENDS Federation

FoldedNames == [corp |-> "corp", Corp |-> "corp", lab |-> "lab"]
Escaped == [i1 |-> "i1", i2 |-> "i2", e1 |-> "e1"]
ByName == [S \in SUBSET Backends |-> IF "b1" \in S \/ S = {} THEN "b1" ELSE "b2"]

Domain(name, policy) == [name |-> name, mode |-> Unset, deletionPolicy |-> policy]
Rules == {[local |-> 1, remote |-> {"HTTP_OIDC_SUB"}]}
Groups == {[name |-> "staff", roleAssignments |->
              {[role |-> "member", project |-> FALSE, domain |-> TRUE]}]}
OIDC(issuer, idp, attribute, introspection) ==
  [issuer |-> issuer, url |-> Unset, endpoints |-> {}, text |-> "clean",
   key |-> Unset, protocolID |-> Unset, identityProviderName |-> idp,
   remoteIDAttribute |-> attribute, introspection |-> introspection,
   sessionType |-> Unset]
SAML(source, protocol) ==
  [idpEntityID |-> "e1", metadata |-> {[source |-> source, entityID |-> "e1"]},
   own |-> FALSE, text |-> "clean", key |-> Unset, protocolID |-> protocol,
   identityProviderName |-> Unset, remoteIDAttribute |-> Unset,
   forwardAttributes |-> {}]
LDAP == [scheme |-> "ldap", text |-> "clean", key |-> Unset, readOnly |-> Unset,
         tls |-> TRUE, pool |-> FALSE]
Draft(type, domain, ldap, oidc, saml, mappings, groups) ==
  [type |-> type, domain |-> domain, ldap |-> ldap, oidc |-> oidc, saml |-> saml,
   mappings |-> mappings, groups |-> groups, extraOptions |-> {}]
OIDCDraft(domain, o, groups) == Draft("OIDC", domain, {}, {o}, {}, Rules, groups)
SAMLDraft(domain, m) == Draft("SAML", domain, {}, {}, {m}, Rules, {})
LDAPDraft(domain) == Draft("LDAP", domain, {LDAP}, {}, {}, {}, {})

Plain == OIDC("i1", Unset, Unset, FALSE)
First1 == OIDCDraft(Domain("corp", "Delete"), Plain, {})
Settle == [b1 |-> {First1,
                   OIDCDraft(Domain("corp", "Delete"), OIDC("i2", Unset, Unset, FALSE),
                             Groups)},
           b2 |-> {LDAPDraft(Domain("Corp", Unset)),
                   SAMLDraft(Domain("lab", Unset), SAML("inline", "corp")),
                   OIDCDraft(Domain("lab", Unset), OIDC("i1", "b2", "HTTP_OIDC_SUB", TRUE),
                             {})}]

\* A first backend at rest, as a pass of each controller leaves it, or waiting
\* for its Secret, which was never there; that one meets no further fault.
AtRest(b, d, projects) ==
  [st |-> "live", spec |-> Default(b, d), gen |-> 1, fin |-> TRUE, id |-> b,
   ready |-> "true", fed |-> "true", map |-> "true", projected |-> projects]
RestingWith(projects) ==
  /\ request = {}
  /\ backend = [b \in Backends |-> IF b = "b1" THEN AtRest(b, First1, projects)
                                      ELSE NoBackend(b)]
  /\ world = [missing |-> IF projects THEN {} ELSE {"b1"}, malformed |-> {},
              large |-> {}, up |-> TRUE, image |-> TRUE, admin |-> TRUE, roles |-> TRUE]
  /\ identity = [domains |-> {[name |-> "corp", by |-> "b1"]},
                 providers |-> {[id |-> "b1", domain |-> "b1", remote |-> "i1"]},
                 mappings |-> {[id |-> <<"b1", "mapping">>, rules |-> Rules]},
                 protocols |-> {[idp |-> "b1", id |-> "openid",
                                 mapping |-> <<"b1", "mapping">>]},
                 groups |-> {}, grants |-> {}]
  /\ documents = [b \in Backends |->
                    IF b = "b1" /\ projects THEN {[gen |-> 1, doc |-> Document(Spec_(b))]} ELSE {}]
  /\ secrets = IF projects THEN <<The(Projection).data>> ELSE <<>>
  /\ stable = IF projects THEN {"passphrase"} ELSE {}
  /\ dep = [domains |-> {}, fed |-> Projection,
            config |-> RenderConfig(ConfigKey({}, Projection))]
  /\ memo = {[key |-> ConfigKey({}, Projection), config |-> dep.config]}
  /\ status = Pending /\ pc = [b \in Backends |-> "idle"]
  /\ hand = [b \in Backends |-> NoBackend(b)] /\ work = hand
  /\ woken = IF projects THEN {} ELSE {"b1"}
  /\ spent = [trouble |-> IF projects THEN 0 ELSE MaxTrouble, outages |-> 0]
RestingInit == \E projects \in BOOLEAN : RestingWith(projects)
RestingSpec == RestingInit /\ [][Next]_vars /\ Fairness
=============================================================================
