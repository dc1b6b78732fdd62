------------------------------ MODULE MCServices ------------------------------
(***************************************************************************)
(* Small specs for Services: one CR of each kind with nothing optional     *)
(* set, and for each field of it the values worth giving it: what is       *)
(* valid, what lies on a boundary and what must be refused.                *)
(***************************************************************************)
EXTENDS Services, TLC

URL(s, h) == [scheme |-> s, host |-> h]
Pods == [replicas |-> 0, resources |-> {}, grace |-> {}, preStop |-> {},
         strategy |-> {}, spread |-> {}, priority |-> {}]
Logging == [format |-> "", level |-> "", debug |-> {}, loggers |-> <<>>]
UWSGI == [processes |-> 0, threads |-> 0, harakiri |-> {}, timeout |-> {}, keepAlive |-> {}]
DB == [clusterRef |-> {"maria"}, host |-> {}, mode |-> "", database |-> "db",
       secretRef |-> "s"]
Cache == [clusterRef |-> {"mem"}, servers |-> {}]
Auto == [min |-> {}, max |-> 2, cpu |-> {80}, memory |-> {}]
Image == [tag |-> {"t1"}, digest |-> {}]
Keys == [max |-> 0, schedule |-> "cron"]
Boot == [adminUser |-> "", region |-> "", adminSecret |-> "s", publicEndpoint |-> {}]
Rotation == [enabled |-> TRUE, schedule |-> "", length |-> 0]
SSO == [enabled |-> TRUE, choices |-> <<"oidc">>, initial |-> {}, mapped |-> {"oidc"},
        keystoneURL |-> {}]
Domains == [enabled |-> TRUE, dropdown |-> FALSE, choices |-> <<>>, default |-> {}]

Common == [deployment |-> Pods, image |-> Image, cache |-> Cache, store |-> {},
           autoscaling |-> {}, networkPolicy |-> {}, gateway |-> {},
           logging |-> {}, extraConfig |-> {}]
Keystone ==
  Common @@ [kind |-> "Keystone", database |-> DB, tls |-> {}, fernet |-> Keys,
             credentialKeys |-> Keys, rotation |-> {}, trustFlush |-> {},
             proxyImage |-> {}, dashboards |-> <<>>, bootstrap |-> Boot,
             plugins |-> <<>>, policy |-> {}, uwsgi |-> {}]
Horizon ==
  Common @@ [kind |-> "Horizon", keystoneEndpoint |-> {URL("https", "ks")},
             secretKey |-> "s", websso |-> {}, multiDomain |-> {}]
Glance ==
  Common @@ [kind |-> "Glance", database |-> DB, keystoneEndpoint |-> {URL("https", "ks")},
             publicEndpoint |-> {}, serviceUser |-> "", uwsgi |-> {},
             release |-> <<2026, 1>>]

MCDrafts == {Keystone, Horizon, Glance}

Deployments ==
  {[Pods EXCEPT !.replicas = 1], [Pods EXCEPT !.grace = {10}],
   [Pods EXCEPT !.grace = {10}, !.preStop = {9}],
   [Pods EXCEPT !.preStop = {30}], [Pods EXCEPT !.priority = {"high"}],
   [Pods EXCEPT !.strategy = {[type |-> "Recreate", rollingUpdate |-> TRUE]}],
   [Pods EXCEPT !.spread = {{"other pods"}}],
   [Pods EXCEPT !.resources =
      {[requests |-> [cpu |-> 3], limits |-> [cpu |-> 2]]}],
   [Pods EXCEPT !.strategy = {[type |-> "Recreate", rollingUpdate |-> FALSE]}]}
Autoscalers ==
  {{}, {Auto}, {[Auto EXCEPT !.min = {1}]}, {[Auto EXCEPT !.max = 3]},
   {[Auto EXCEPT !.min = {3}]}, {[Auto EXCEPT !.cpu = {}, !.min = {2}]}}
Servers ==
  {{[UWSGI EXCEPT !.harakiri = {h}]} : h \in {5, 20, 25}} \union
  {{[UWSGI EXCEPT !.timeout = {5}, !.keepAlive = {FALSE}]}}
Shared ==
  [deployment |-> Deployments, autoscaling |-> Autoscalers,
   image |-> {[Image EXCEPT !.digest = {"d"}], [tag |-> {}, digest |-> {"d"}]},
   networkPolicy |-> {{0}, {1}},
   logging |-> {{[Logging EXCEPT !.loggers = [sql |-> "LOUD"]]}, {Logging}}]
MCBlocks ==
  [Keystone |-> Shared @@
     [uwsgi |-> Servers,
      database |-> {[DB EXCEPT !.database = "other"], [DB EXCEPT !.mode = "Dynamic"]},
      tls |-> {{[mode |-> "", caBundle |-> "s", clientCert |-> "s"]},
               {[mode |-> "verify-ca", caBundle |-> "s", clientCert |-> ""]}},
      fernet |-> {[Keys EXCEPT !.max = 2], [Keys EXCEPT !.schedule = "no cron"]},
      rotation |-> {{Rotation}, {[Rotation EXCEPT !.enabled = FALSE, !.length = 24]}},
      gateway |-> {{[hostname |-> "h", parent |-> "gw"]}},
      bootstrap |-> {[Boot EXCEPT !.publicEndpoint = {URL(s, h)}] :
                     s \in {"http", "https"}, h \in {"h", "g"}},
      dashboards |-> {<<URL("http", "d")>>, <<URL("http", "d"), URL("http", "d")>>},
      extraConfig |-> {{"trusted_dashboard"}}],
   Horizon |-> Shared @@
     [websso |-> {{SSO}, {[SSO EXCEPT !.choices = <<>>]}, {[SSO EXCEPT !.initial = {"saml"}]}},
      multiDomain |-> {{Domains}, {[Domains EXCEPT !.dropdown = TRUE]}},
      extraConfig |-> {{"WEBSSO_ENABLED"}, {"SECRET_KEY"}}],
   Glance |-> Shared @@ [uwsgi |-> Servers, release |-> {<<2025, 2>>}]]

MCSpec == SvcSpec /\ WF_svcVars(SvcOperator)
=============================================================================
