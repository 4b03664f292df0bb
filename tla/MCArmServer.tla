---------------------------- MODULE MCArmServer -----------------------------
(***************************************************************************)
(* The casts of the runs, by the family of requests each asks.  Name "ab"  *)
(* begins with "a", so that a prefix without its colon would reach too     *)
(* far; LIKE takes the name "gxh" for "g_h".                               *)
(***************************************************************************)
EXTENDS ArmServer, ArmHandlers, TLC

MCLonger == {<<"a", "ab">>}
MCAlike == {<<"g_h", "gxh">>}
Two == {"a", "ab"}

VNets == {PutVNet("g", v) : v \in Two} \union {DeleteVNet("g", v) : v \in Two}
         \union {GetVNet("g", "a")}
Subnets == UNION {{PutSubnet("g", v, "s"), DeleteSubnet("g", v, "s")} : v \in Two}
NSGs == {PutNSG("g", n) : n \in Two} \union {DeleteNSG("g", n) : n \in Two}
        \union {GetNSG("g", "a")}
Rules == UNION {{PutRule("g", n, "r"), DeleteRule("g", n, "r")} : n \in Two}
Groups == {PutGroup("g"), PatchGroup("g"), DeleteGroup("g")}

Network == VNets \union Subnets \union Groups
Security == NSGs \union Rules \union Groups
Zones == UNION {{PutZone("g", z), DeleteZone("g", z), PutRecordSet("g", z, "A", "r"),
                 DeleteRecordSet("g", z, "A", "r")} : z \in Two} \union {PutGroup("g"), DeleteGroup("g")}

Servers(put(_, _), delete(_, _), putDb(_, _, _), deleteDb(_, _, _)) ==
    UNION {{put("g", s), delete("g", s), putDb("g", s, "d"), deleteDb("g", s, "d")} : s \in Two}
        \union {PutGroup("g"), DeleteGroup("g")}
SqlServers == Servers(PutSqlServer, DeleteSqlServer, PutSqlDatabase, DeleteSqlDatabase)
PgServers == Servers(PutPgServer, DeletePgServer, PutPgDatabase, DeletePgDatabase)
MySqlServers == Servers(PutMySqlServer, DeleteMySqlServer, PutMySqlDatabase, DeleteMySqlDatabase)

PublicIPs == UNION {{PutPublicIP("g", p), DeletePublicIP("g", p)} : p \in Two}
             \union {PutGroup("g"), DeleteGroup("g")}
Balancers == {PutLoadBalancer("g", "a"), DeleteLoadBalancer("g", "a"),
    PutBackendAddressPool("g", "a", "b"), DeleteBackendAddressPool("g", "a", "b"),
    PutProbe("g", "a", "p"), DeleteProbe("g", "a", "p"), PutLoadBalancingRule("g", "a", "r"),
    DeleteLoadBalancingRule("g", "a", "r"), PutAppGateway("g", "a"), DeleteAppGateway("g", "a"),
    PutGroup("g"), DeleteGroup("g")}
Storage == UNION {{PutStorageAccount(g, "a"), DeleteStorageAccount(g, "a")} : g \in {"g", "h"}}
    \union {PutArmContainer("g", "a", "c"), DeleteArmContainer("g", "a", "c"),
            PutGroup("g"), DeleteGroup("g")}
    \union UNION {{CreateContainer("a", c), DeleteContainer("a", c), UploadBlob("a", c, "b"),
                   DeleteBlob("a", c, "b")} : c \in Two}
Data == {UpsertEntity("a", "t", "p", "r"), DeleteEntity("a", "t", "p", "r"), SetSecret("v", "n"),
    DeleteSecret("v", "n"), SetKeyValue("s", "k"), DeleteKeyValue("s", "k"),
    CreateDocument("a", "d", "c", "i"), ReplaceDocument("a", "d", "c", "i"),
    DeleteDocument("a", "d", "c", "i"), PutCache("g", "c"), DeleteCache("g", "c")}
Cosmos == {PutCosmosAccount("g", "a"), DeleteCosmosAccount("g", "a"),
    PutCosmosDatabase("g", "a", "d"), DeleteCosmosDatabase("g", "a", "d"),
    PutCosmosContainer("g", "a", "d", "c"), DeleteCosmosContainer("g", "a", "d", "c"),
    PutConfigStore("g", "a"), DeleteConfigStore("g", "a"), PutRegistry("g", "a"),
    DeleteRegistry("g", "a"), PutEventTopic("g", "a"), DeleteEventTopic("g", "a"),
    PutGroup("g"), DeleteGroup("g")}
Namespaces == {PutNamespace("g", "a"), DeleteNamespace("g", "a"), PutArmQueue("g", "a", "q"),
    DeleteArmQueue("g", "a", "q"), PutArmTopic("g", "a", "t"), DeleteArmTopic("g", "a", "t"),
    PutGroup("g"), DeleteGroup("g")}
Apps == {PutContainerApp("g", "a"), DeleteContainerApp("g", "a"), StartContainerApp("g", "a"),
    StopContainerApp("g", "a"), UpdateContainerApp("g", "a"), CreateContainerAppSecrets("g", "a"),
    PutJob("g", "a"), DeleteJob("g", "a"), StartJob("g", "a"), StopJob("g", "a"),
    UpdateJob("g", "a"), StopExecution("g", "a"), StopMultipleExecutions("g", "a"),
    PutManagedEnvironment("g", "a"), DeleteManagedEnvironment("g", "a"),
    PutGroup("g"), DeleteGroup("g")}
Sites == {PutServerFarm("g", "f"), DeleteServerFarm("g", "f"), PutSite("g", "a"),
    DeleteSite("g", "a"), PutSlot("g", "a", "s"), DeleteSlot("g", "a", "s"),
    UpdateConfig("g", "a"), UpdateAppSettings("g", "a"), UpdateAuthSettings("g", "a"),
    UpdateAzureStorageAccounts("g", "a", <<"x", "y">>), UpdateConnectionStrings("g", "a", <<"x">>),
    PutGroup("g"), DeleteGroup("g")}
Settings == {PutSite("g", "a"), DeleteSite("g", "a"), UpdateBasicPublishing("g", "a"),
    UpdateScmAllowed("g", "a"), UpdateFtpAllowed("g", "a"), UpdateBackupSettings("g", "a"),
    UpdateLogsSettings("g", "a"), UpdateSlotConfigNames("g", "a"), UpdateMetadata("g", "a"),
    UpdatePushSettings("g", "a"), UpdateAuthSettingsV2("g", "a")}
Deployments == {Deploy("g", "d", <<PutZone("g", "a"), PutCache("g", "c"), PutNSG("g", "n"),
                                   PutVNet("g", "v"), PutPublicIP("g", "p")>>),
    Deploy("g", "d", <<PutVNet("g", "v"), NestedResource("subnet", <<"g", "v", "s">>),
                       PutCache("g", "c")>>),
    PutRule("g", "n", "r"), DeleteVNet("g", "v"), DeleteZone("g", "a"), DeleteNSG("g", "n"),
    DeleteCache("g", "c"), DeletePublicIP("g", "p"), DeleteDeployment("g", "d"),
    PutGroup("g"), DeleteGroup("g")}
Queues == UNION {{CreateQueue("a", q), DeleteQueue("a", q), ClearMessages("a", q),
                  SendMessage("a", q, "1")} : q \in Two}
Identities == UNION {{PutIdentity("g", i), DeleteIdentity("g", i)} : i \in Two}
              \union {PutGroup("g"), DeleteGroup("g")}

AllFamilies == {Network, Security, Zones, SqlServers, PgServers, MySqlServers, PublicIPs,
    Balancers, Storage, Data, Cosmos, Namespaces, Apps, Sites, Settings, Deployments, Queues,
    Identities}

MCObjects == {"o1", "o2", "o3", "o4"}
Symmetry == Permutations(Clients)

(* One client and a map in memory.                                         *)
Cast(requests) == [requests |-> requests, atOnce |-> 1, backend |-> "memory",
                   addresses |-> 4, resets |-> 0, restarts |-> 0]
SingleCasts == {Cast(requests) : requests \in AllFamilies}
-----------------------------------------------------------------------------
(* For two clients: fewer names, and of a group's sweeps those of kinds    *)
(* the family stores.  The others find nothing.                            *)
Sweeping(kinds, r) ==
    LET calls == SelectSeq(r.calls, LAMBDA x : x.op = "deleteByPrefix" => x.key.kind \in kinds)
    IN [r EXCEPT !.calls = calls, !.cleanup = Len(calls) + 1]

FewSubnets == {PutVNet("g", "a"), GetVNet("g", "a"), DeleteVNet("g", "a"),
    PutSubnet("g", "a", "s"), DeleteSubnet("g", "a", "s"), PutSubnet("g", "ab", "s")}
FewRules == {PutNSG("g", "a"), DeleteNSG("g", "a"), PutRule("g", "a", "r"),
    PutGroup("g"), Sweeping({"nsg", "nsgrule"}, DeleteGroup("g"))}
FewAddresses == {PutPublicIP("g", "a"), PutPublicIP("g", "ab"), DeletePublicIP("g", "a"),
    PutGroup("g"), Sweeping({"publicip"}, DeleteGroup("g"))}
FewRecords == {PutZone("g", "a"), DeleteZone("g", "a"), PutRecordSet("g", "a", "A", "r"),
    PutPgDatabase("g", "a", "d"), DeletePgServer("g", "a"), PutPgServer("g", "a")}
FewBlobs == {PutStorageAccount("g", "a"), DeleteStorageAccount("g", "a"), CreateContainer("a", "a"),
    DeleteContainer("a", "a"), UploadBlob("a", "a", "b"), UploadBlob("a", "ab", "b"),
    CreateDocument("a", "d", "c", "i"), DeleteDocument("a", "d", "c", "i")}

FewFamilies == {FewSubnets, FewRules, FewAddresses, FewRecords, FewBlobs}
CrowdedCasts == {[Cast(requests) EXCEPT !.atOnce = 2, !.addresses = 2, !.resets = 1] :
                    requests \in FewFamilies}

-----------------------------------------------------------------------------
(* What a restart changes: records whose Go type is asserted, and          *)
(* addresses.  The same records over PostgreSQL, where JSON decodes each.  *)
Asserted == {PutGroup("g"), PatchGroup("g"), DeleteGroup("g"), CreateContainer("a", "c"),
    DeleteContainer("a", "c"), listContainersXML("a"), UploadBlob("a", "c", "b"),
    DownloadBlob("a", "c", "b"), SetSecret("v", "n"), DeleteSecret("v", "n"), ListSecrets("v"),
    PutRegistry("g", "a"), DeleteRegistry("g", "a"), CheckNameAvailability}
Restarting(requests) == [Cast(requests) EXCEPT !.backend = "file", !.restarts = 1]
Postgres(requests) == [Cast(requests) EXCEPT !.backend = "postgres"]

(* Groups whose names LIKE does not tell apart.                            *)
Similar == UNION {{PutGroup(g), DeleteGroup(g), PutVNet(g, "a"), GetVNet(g, "a"),
    DeleteVNet(g, "a"), PutSubnet(g, "a", "s"), DeleteSubnet(g, "a", "s")} : g \in {"g_h", "gxh"}}

AddressesAgain == {PutPublicIP("g", p) : p \in Two} \union {DeletePublicIP("g", "a")}
RestartCasts == {Restarting(Asserted), Restarting(AddressesAgain), Restarting(Network)}
PostgresCasts == {Postgres(Asserted), Postgres(Similar), Postgres(Security),
                  [Postgres(FewSubnets) EXCEPT !.atOnce = 2]}

ServedCasts == SingleCasts \union CrowdedCasts \union RestartCasts \union PostgresCasts
LeavingCasts == {Cast(requests) : requests \in {Balancers, Apps, Sites, Deployments}}
StoppingCasts == {Restarting(Asserted)}
=============================================================================
