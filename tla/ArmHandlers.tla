---------------------------- MODULE ArmHandlers ----------------------------
(***************************************************************************)
(* The handlers of internal/services that change records of the shared    *)
(* store, each as the calls it makes.  Bodies, answers and the choice      *)
(* between 200, 201 and 202 are left out; so are handlers that only read,  *)
(* except those that change what they read or assert its Go type, and the  *)
(* components with a module of their own.  g is a resource group.          *)
(***************************************************************************)
EXTENDS StoreCalls

-----------------------------------------------------------------------------
(* network/handler.go                                                      *)

PutVNet(g, v) == PutPlain("vnet", <<g, v>>)

(* Mutant: the subnets are not listed again.                               *)
BugGetVNetAsStored(g, v) == Request("GET", "vnet", <<g, v>>, <<Get("vnet", <<g, v>>), Encode>>)

(* The subnets are listed again and assigned to the stored record.         *)
GetVNet(g, v) == Request("GET", "vnet", <<g, v>>,
    <<Get("vnet", <<g, v>>), ListByPrefix("subnet", <<g, v, "">>), Assign, Encode>>)

(* Mutants: the subnets stay; the prefix has no colon at its end.          *)
BugKeepSubnets(g, v) == Request("DELETE", "vnet", <<g, v>>, <<Delete("vnet", <<g, v>>)>>)
BugPrefixWithoutColon(g, v) == Request("DELETE", "vnet", <<g, v>>,
    <<Delete("vnet", <<g, v>>), DeleteByPrefix("subnet", <<g, v>>)>>)

DeleteVNet(g, v) == Request("DELETE", "vnet", <<g, v>>,
    <<Delete("vnet", <<g, v>>), DeleteByPrefix("subnet", <<g, v, "">>)>>)

(* Mutant: the early return for a VNet that is gone leaves too much out.   *)
BugReturnTooFar(g, v) ==
    <<GetOrSkip("vnet", <<g, v>>, 4), ListByPrefix("subnet", <<g, v, "">>), Assign,
      SetSame("vnet", <<g, v>>)>>

updateVNetSubnets(g, v) ==
    <<GetOrSkip("vnet", <<g, v>>, 3), ListByPrefix("subnet", <<g, v, "">>), Assign,
      SetSame("vnet", <<g, v>>)>>

(* Mutant: the VNet is not asked for.                                      *)
BugPutSubnetAnywhere(g, v, s) == Request("PUT", "subnet", <<g, v, s>>,
    <<Look("subnet", <<g, v, s>>), Set("subnet", <<g, v, s>>)>> \o updateVNetSubnets(g, v))

PutSubnet(g, v, s) == Request("PUT", "subnet", <<g, v, s>>,
    PutChild("vnet", <<g, v>>, "subnet", <<s>>).calls \o updateVNetSubnets(g, v))
DeleteSubnet(g, v, s) == Request("DELETE", "subnet", <<g, v, s>>,
    <<Delete("subnet", <<g, v, s>>)>> \o updateVNetSubnets(g, v))

-----------------------------------------------------------------------------
(* nsg, dns, loadbalancer, appgw, publicip                                 *)

PutNSG(g, n) == Request("PUT", "nsg", <<g, n>>,
    <<Look("nsg", <<g, n>>), ListByPrefix("nsgrule", <<g, n, "">>), Set("nsg", <<g, n>>)>>)
GetNSG(g, n) == Request("GET", "nsg", <<g, n>>,
    <<Get("nsg", <<g, n>>), ListByPrefix("nsgrule", <<g, n, "">>), Assign, Encode>>)
DeleteNSG(g, n) == Request("DELETE", "nsg", <<g, n>>,
    <<Delete("nsg", <<g, n>>), DeleteByPrefix("nsgrule", <<g, n, "">>)>>)
PutRule(g, n, r) == PutChild("nsg", <<g, n>>, "nsgrule", <<r>>)
DeleteRule(g, n, r) == DeletePlain("nsgrule", <<g, n, r>>)

(* A new zone gets its SOA and NS records.                                 *)
PutZone(g, z) == Request("PUT", "dns:zone", <<g, z>>,
    <<Look("dns:zone", <<g, z>>), Set("dns:zone", <<g, z>>), SkipIfFound(3),
      Set("dns:record", <<g, z, "SOA", "@">>), Set("dns:record", <<g, z, "NS", "@">>),
      Set("dns:zone", <<g, z>>)>>)
DeleteZone(g, z) == Request("DELETE", "dns:zone", <<g, z>>,
    <<Delete("dns:zone", <<g, z>>), DeleteByPrefix("dns:record", <<g, z, "">>)>>)
PutRecordSet(g, z, t, n) == PutChild("dns:zone", <<g, z>>, "dns:record", <<t, n>>)
DeleteRecordSet(g, z, t, n) == DeletePlain("dns:record", <<g, z, t, n>>)

PutLoadBalancer(g, l) == PutPlain("lb", <<g, l>>)
DeleteLoadBalancer(g, l) == DeletePlain("lb", <<g, l>>)
PutBackendAddressPool(g, l, b) == PutPlain("lb:bap", <<g, l, b>>)
DeleteBackendAddressPool(g, l, b) == DeletePlain("lb:bap", <<g, l, b>>)
PutProbe(g, l, p) == PutPlain("lb:probe", <<g, l, p>>)
DeleteProbe(g, l, p) == DeletePlain("lb:probe", <<g, l, p>>)
PutLoadBalancingRule(g, l, r) == PutPlain("lb:rule", <<g, l, r>>)
DeleteLoadBalancingRule(g, l, r) == DeletePlain("lb:rule", <<g, l, r>>)

PutAppGateway(g, a) == PutPlain("appgw", <<g, a>>)
DeleteAppGateway(g, a) == DeletePlain("appgw", <<g, a>>)

PutPublicIP(g, p) == Request("PUT", "publicip", <<g, p>>,
    <<Look("publicip", <<g, p>>), Address, Set("publicip", <<g, p>>)>>)
DeletePublicIP(g, p) == DeletePlain("publicip", <<g, p>>)
-----------------------------------------------------------------------------
(* Databases.  The engine outside is asked only for a new record, and a    *)
(* failed DROP DATABASE is only logged: deleting does not depend on it.    *)

PutSqlServer(g, s) == PutPlain("sqldb:server", <<g, s>>)
DeleteSqlServer(g, s) == Request("DELETE", "sqldb:server", <<g, s>>,
    <<Delete("sqldb:server", <<g, s>>), DeleteByPrefix("sqldb:db", <<g, s, "">>)>>)
PutSqlDatabase(g, s, d) == PutChild("sqldb:server", <<g, s>>, "sqldb:db", <<d>>)
DeleteSqlDatabase(g, s, d) == DeletePlain("sqldb:db", <<g, s, d>>)

PutPgServer(g, s) == PutPlain("pgflex:server", <<g, s>>)
DeletePgServer(g, s) == Request("DELETE", "pgflex:server", <<g, s>>,
    <<Delete("pgflex:server", <<g, s>>), DeleteByPrefix("pgflex:db", <<g, s, "">>)>>)
PutPgDatabase(g, s, d) == Request("PUT", "pgflex:db", <<g, s, d>>,
    <<Get("pgflex:server", <<g, s>>), Look("pgflex:db", <<g, s, d>>), SkipIfFound(1), MayFail,
      Set("pgflex:db", <<g, s, d>>)>>)
DeletePgDatabase(g, s, d) == DeletePlain("pgflex:db", <<g, s, d>>)

PutMySqlServer(g, s) == PutPlain("dbmysql:server", <<g, s>>)
DeleteMySqlServer(g, s) == Request("DELETE", "dbmysql:server", <<g, s>>,
    <<Delete("dbmysql:server", <<g, s>>), DeleteByPrefix("dbmysql:db", <<g, s, "">>)>>)
PutMySqlDatabase(g, s, d) == Request("PUT", "dbmysql:db", <<g, s, d>>,
    <<Get("dbmysql:server", <<g, s>>), Look("dbmysql:db", <<g, s, d>>), SkipIfFound(1), MayFail,
      Set("dbmysql:db", <<g, s, d>>)>>)
DeleteMySqlDatabase(g, s, d) == DeletePlain("dbmysql:db", <<g, s, d>>)

(* Without REDIS_URL the cache is not tried and MayFail does not fail.     *)
PutCache(g, c) == Request("PUT", "redis", <<g, c>>,
    <<MayFail, Look("redis", <<g, c>>), Set("redis", <<g, c>>)>>)
DeleteCache(g, c) == DeletePlain("redis", <<g, c>>)

PutCosmosAccount(g, a) == PutPlain("cosmos:account", <<g, a>>)
DeleteCosmosAccount(g, a) == DeletePlain("cosmos:account", <<g, a>>)
PutCosmosDatabase(g, a, d) == PutPlain("cosmos:sqldb", <<g, a, d>>)
DeleteCosmosDatabase(g, a, d) == DeletePlain("cosmos:sqldb", <<g, a, d>>)
PutCosmosContainer(g, a, d, c) == PutPlain("cosmos:container", <<g, a, d, c>>)
DeleteCosmosContainer(g, a, d, c) == DeletePlain("cosmos:container", <<g, a, d, c>>)
CreateDocument(a, d, c, i) == Request("POST", "cosmos", <<a, d, c, i>>,
    <<Absent("cosmos", <<a, d, c, i>>), Set("cosmos", <<a, d, c, i>>)>>)
ReplaceDocument(a, d, c, i) == PutBlind("cosmos", <<a, d, c, i>>)
DeleteDocument(a, d, c, i) == DeleteBlind("cosmos", <<a, d, c, i>>)

-----------------------------------------------------------------------------
(* Storage accounts, blobs, tables, secrets, settings, registries, topics  *)
(* and Service Bus namespaces.  Some keys have no group.                   *)

PutStorageAccount(g, a) == Request("PUT", "blob:account", <<g, a>>,
    <<Set("blob:account", <<g, a>>), Set("blob:sharedkeyctx", <<a>>)>>)
DeleteStorageAccount(g, a) == Request("DELETE", "blob:account", <<g, a>>,
    <<Delete("blob:account", <<g, a>>), Drop("blob:sharedkeyctx", <<a>>)>>)
PutArmContainer(g, a, c) == PutBlind("blob:armcontainer", <<g, a, c>>)
DeleteArmContainer(g, a, c) == DeletePlain("blob:armcontainer", <<g, a, c>>)

(* An account that ARM has created asks for a signature.                   *)
blobSharedKeyAuth(a) == <<GetOrSkip("blob:sharedkeyctx", <<a>>, 1), MayFail>>

CreateContainer(a, c) == Request("PUT", "blob:container", <<a, c>>,
    blobSharedKeyAuth(a) \o <<Set("blob:container", <<a, c>>)>>)
DeleteContainer(a, c) == Request("DELETE", "blob:container", <<a, c>>,
    blobSharedKeyAuth(a) \o
    <<Drop("blob:container", <<a, c>>), DeleteByPrefix("blob:blob", <<a, c, "">>)>>)
UploadBlob(a, c, b) == Request("PUT", "blob:blob", <<a, c, b>>,
    blobSharedKeyAuth(a) \o <<Set("blob:blob", <<a, c, b>>)>>)
DownloadBlob(a, c, b) == Request("GET", "blob:blob", <<a, c, b>>,
    blobSharedKeyAuth(a) \o <<Get("blob:blob", <<a, c, b>>), Typed>>)
listContainersXML(a) == Request("GET", "blob:container", <<a>>,
    blobSharedKeyAuth(a) \o <<ListTyped("blob:container", <<a, "">>)>>)
DeleteBlob(a, c, b) == Request("DELETE", "blob:blob", <<a, c, b>>,
    blobSharedKeyAuth(a) \o <<Drop("blob:blob", <<a, c, b>>)>>)

UpsertEntity(a, t, pk, rk) == PutBlind("table", <<a, t, pk, rk>>)
DeleteEntity(a, t, pk, rk) == DeleteBlind("table", <<a, t, pk, rk>>)
SetSecret(v, n) == PutBlind("kv", <<v, n>>)
DeleteSecret(v, n) == DeleteBlind("kv", <<v, n>>)
ListSecrets(v) == Request("GET", "kv", <<v>>, <<ListTyped("kv", <<v, "">>)>>)
SetKeyValue(s, k) == PutBlind("appconfig", <<s, k>>)
DeleteKeyValue(s, k) == DeleteBlind("appconfig", <<s, k>>)
PutConfigStore(g, s) == PutPlain("appconfig:store", <<g, s>>)
DeleteConfigStore(g, s) == DeletePlain("appconfig:store", <<g, s>>)
PutRegistry(g, n) == PutPlain("acr:registry", <<g, n>>)
DeleteRegistry(g, n) == DeletePlain("acr:registry", <<g, n>>)
(* A POST that only reads: it asserts that a registry is a Registry, and   *)
(* PutRegistry stores a map, so it finds none and every name is available. *)
CheckNameAvailability == Request("POST", "acr:registry", <<>>, <<ListTyped("acr:registry", <<"">>)>>)
PutEventTopic(g, t) == PutPlain("eg:topic", <<g, t>>)
DeleteEventTopic(g, t) == DeletePlain("eg:topic", <<g, t>>)

PutNamespace(g, n) == PutPlain("sb:namespace", <<g, n>>)
DeleteNamespace(g, n) == Request("DELETE", "sb:namespace", <<g, n>>,
    <<Delete("sb:namespace", <<g, n>>), DeleteByPrefix("sb:queue", <<n, "">>),
      DeleteByPrefix("sb:topic", <<n, "">>)>>)
PutArmQueue(g, n, q) == PutPlain("sb:armqueue", <<g, n, q>>)
DeleteArmQueue(g, n, q) == DeletePlain("sb:armqueue", <<g, n, q>>)
PutArmTopic(g, n, t) == PutPlain("sb:armtopic", <<g, n, t>>)
DeleteArmTopic(g, n, t) == DeletePlain("sb:armtopic", <<g, n, t>>)
-----------------------------------------------------------------------------
(* apps: container apps, their jobs and environments.                      *)

PutContainerApp(g, a) == PutPlain("containerapp", <<g, a>>)
DeleteContainerApp(g, a) == DeletePlain("containerapp", <<g, a>>)
StartContainerApp(g, a) == Patch("containerapp", <<g, a>>)
StopContainerApp(g, a) == Patch("containerapp", <<g, a>>)
UpdateContainerApp(g, a) == Patch("containerapp", <<g, a>>)
(* The record is got again, and the handler panics if it is no longer      *)
(* there.                                                                  *)
CreateContainerAppSecrets(g, a) == Request("POST", "containerapp", <<g, a>>,
    <<Get("containerapp", <<g, a>>), Get("containerapp", <<g, a>>),
      SetSame("containerapp", <<g, a>>)>>)

PutJob(g, j) == PutPlain("containerjob", <<g, j>>)
DeleteJob(g, j) == DeletePlain("containerjob", <<g, j>>)
StartJob(g, j) == Patch("containerjob", <<g, j>>)
StopJob(g, j) == Patch("containerjob", <<g, j>>)
UpdateJob(g, j) == Patch("containerjob", <<g, j>>)
StopExecution(g, j) == Patch("containerjob", <<g, j>>)
StopMultipleExecutions(g, j) == Patch("containerjob", <<g, j>>)

PutManagedEnvironment(g, e) == PutPlain("managedenv", <<g, e>>)
DeleteManagedEnvironment(g, e) == DeletePlain("managedenv", <<g, e>>)

-----------------------------------------------------------------------------
(* sites.  A site has a second key, without its group, that is not deleted *)
(* and that answers whether the name is free.  No setting is deleted.      *)

PutServerFarm(g, f) == PutPlain("serverfarm", <<g, f>>)
DeleteServerFarm(g, f) == DeletePlain("serverfarm", <<g, f>>)
PutSite(g, n) == Request("PUT", "func", <<g, n>>,
    <<Look("func", <<g, n>>), Set("func", <<g, n>>), Set("func", <<n>>)>>)
DeleteSite(g, n) == DeletePlain("func", <<g, n>>)
PutSlot(g, n, s) == PutPlain("slot", <<g, n, s>>)
DeleteSlot(g, n, s) == DeletePlain("slot", <<g, n, s>>)

UpdateConfig(g, n) == Patch("func", <<g, n>>)
UpdateAppSettings(g, n) == Patch("func", <<g, n>>)

(* A setting kept beside the site; one entry for each of names.            *)
UpdateSetting(kind, g, n) ==
    Request("PUT", kind, <<g, n>>, <<Get("func", <<g, n>>), Set(kind, <<g, n>>)>>)
UpdateEntries(kind, g, n, names) ==
    Request("PUT", kind, <<g, n>>,
            <<Get("func", <<g, n>>)>> \o [i \in DOMAIN names |-> Set(kind, <<g, n, names[i]>>)])

UpdateBasicPublishing(g, n) == UpdateSetting("webapp:basicpublishingcredentialspolicies", g, n)
UpdateScmAllowed(g, n) == UpdateSetting("webapp:scmallowed", g, n)
UpdateFtpAllowed(g, n) == UpdateSetting("webapp:ftpassigned", g, n)
UpdateAuthSettings(g, n) == UpdateSetting("webapp:auth", g, n)
UpdateBackupSettings(g, n) == UpdateSetting("webapp:backup", g, n)
UpdateLogsSettings(g, n) == UpdateSetting("webapp:logs", g, n)
UpdateSlotConfigNames(g, n) == UpdateSetting("webapp:slotconfignames", g, n)
UpdateMetadata(g, n) == UpdateSetting("webapp:metadata", g, n)
UpdatePushSettings(g, n) == UpdateSetting("webapp:pushsettings", g, n)
UpdateAuthSettingsV2(g, n) == UpdateSetting("webapp:authv2", g, n)
UpdateAzureStorageAccounts(g, n, names) == UpdateEntries("webapp:storage", g, n, names)
UpdateConnectionStrings(g, n, names) == UpdateEntries("webapp:connectionstrings", g, n, names)

-----------------------------------------------------------------------------
(* identity: the resource; tokens are left out.                            *)

PutIdentity(g, i) == PutChild("rg", <<g>>, "msi:identity", <<i>>)
DeleteIdentity(g, i) == DeletePlain("msi:identity", <<g, i>>)

-----------------------------------------------------------------------------
(* queue: Queue Storage.  m is the number the message gets from msgId, any *)
(* at all: the counter starts again with the process.                      *)

CreateQueue(a, q) == Request("PUT", "queue:meta", <<a, q>>,
    <<Absent("queue:meta", <<a, q>>), Set("queue:meta", <<a, q>>)>>)
DeleteQueue(a, q) == Request("DELETE", "queue:meta", <<a, q>>,
    <<Delete("queue:meta", <<a, q>>), DeleteByPrefix("queue:msg", <<a, q, "">>)>>)
SendMessage(a, q, m) == Request("POST", "queue:msg", <<a, q, m>>,
    <<Get("queue:meta", <<a, q>>), Set("queue:msg", <<a, q, m>>)>>)
ClearMessages(a, q) == Request("DELETE", "queue:msg", <<a, q>>,
    <<Get("queue:meta", <<a, q>>), DeleteByPrefix("queue:msg", <<a, q, "">>)>>)

-----------------------------------------------------------------------------
(* resourcegroups.  The AKS clusters and VMs outside the store are torn    *)
(* down between the sweeps.                                                *)

PutGroup(g) == PutPlain("rg", <<g>>)
PatchGroup(g) == Request("PATCH", "rg", <<g>>,
    <<Get("rg", <<g>>), Typed, SetSame("rg", <<g>>)>>)

(* Mutant: security rules are not swept.                                   *)
BugGroupSweeps == <<"vnet", "subnet", "nsg", "publicip">>

GroupSweeps == <<"vnet", "subnet", "func", "acr:registry", "eg:topic", "dns:zone", "dns:record",
    "redis", "pgflex:server", "pgflex:db", "dbmysql:server", "dbmysql:db", "sqldb:server",
    "sqldb:db", "aci:containergroup", "aks:cluster", "vm", "vmsvc", "msi:identity", "nsg",
    "nsgrule", "publicip", "lb", "appgw", "blob:account", "blob:armcontainer", "cosmos:account",
    "cosmos:sqldb", "cosmos:container", "sb:namespace", "sb:armqueue", "sb:armtopic",
    "appconfig:store">>

DeleteGroup(g) == Request("DELETE", "rg", <<g>>,
    <<Delete("rg", <<g>>)>> \o [i \in DOMAIN GroupSweeps |-> DeleteByPrefix(GroupSweeps[i], <<g, "">>)])

-----------------------------------------------------------------------------
(* deployments: the resources of the template are put one after the other  *)
(* through the router, up to the first that fails; the deployment is       *)
(* recorded in any case.  A type of more than one segment makes a path the *)
(* router does not know.                                                   *)

NestedResource(kind, path) == Request("PUT", kind, path, <<NotRouted>>)

(* The calls of the resources.                                             *)
CallsOf(resources) ==
    LET first[n \in 0..Len(resources)] ==
            IF n = 0 THEN <<>> ELSE first[n - 1] \o resources[n].calls
    IN first[Len(resources)]

Deploy(g, n, resources) ==
    [Request("PUT", "deployment", <<g, n>>,
             CallsOf(resources) \o <<Look("deployment", <<g, n>>), Set("deployment", <<g, n>>)>>)
     EXCEPT !.cleanup = Len(CallsOf(resources)) + 1,
            !.parts = {resources[i].target : i \in DOMAIN resources}]
DeleteDeployment(g, n) == DeletePlain("deployment", <<g, n>>)
=============================================================================
