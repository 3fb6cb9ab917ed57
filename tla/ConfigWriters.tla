--------------------------- MODULE ConfigWriters ---------------------------
(***************************************************************************)
(* The two ways unwgt writes meta data down again: as config.xml of a      *)
(* widget (tools/unwgt/configxml.cpp) and as the config JSON of an OCI     *)
(* package (tools/unwgt/configspec.cpp).  Each is documented as the        *)
(* inverse of the code that reads its format.                              *)
(***************************************************************************)
EXTENDS MetaData

CONSTANT
    Markup      \* words XML does not take as they are, as text or as a value

\* The capability that asks for a permission.
kConfigXmlPermissionsMap ==
    [p \in {"internet"} |-> "wan-lan"] @@
    [p \in {"external-storage:read"} |-> "read-external-storage"] @@
    [p \in {"external-storage:write"} |-> "write-external-storage"] @@
    [p \in {"display-overlay"} |-> "issue-notifications"] @@
    [p \in {"compositor"} |-> "compositor-app"] @@
    [p \in {"timeshift-buffer", "entos:timeshiftbuffer"} |-> "tsb-storage"] @@
    [p \in {"home-app", "local-services-1", "local-services-2", "local-services-3",
            "local-services-4", "local-services-5", "post-intents", "firebolt", "thunder",
            "rialto", "airplay2", "chromecast", "as-player", "game-controller",
            "bearer-token-authentication", "https-mutual-authentication", "stb-entitlements",
            "memory-intensive", "icrypto"} |-> p]

\* Capabilities are pairs of a name and a content.
Flag(name) == {<<name, AWord("")>>}
When(condition, capabilities) == IF condition THEN capabilities ELSE {}

\* Items joined by commas; nothing at all for none.
setToString(items) == IF items = <<>> THEN AWord("") ELSE <<"list", items>>

\* The strings of a JSON array.
Unquoted(array) == [i \in DOMAIN array |-> array[i][2]]

\* Quotas are written in whole megabytes, and at least one.
Megabytes(bytes) == Max({1, bytes \div (Kilo * Kilo)})

\* tcp is not spelled out.
toCapabilityValue(services) ==
    setToString([i \in DOMAIN services |->
        <<IF services[i].protocol = "udp" THEN "udp" ELSE "", services[i].port>>])

-----------------------------------------------------------------------------
(* config.xml *)

\* What to forward is not written.
multicastCaps(f) ==
    When("serverSockets" \in DOMAIN f,
         {<<"multicast-server-socket", setToString([i \in DOMAIN f["serverSockets"][2] |->
                LET s == f["serverSockets"][2][i][2]
                IN  <<s["name"][2], s["address"][2], s["port"][2]>>])>>})
    \cup
    When("clientSockets" \in DOMAIN f,
         {<<"multicast-client-socket", setToString([i \in DOMAIN f["clientSockets"][2] |->
                <<f["clientSockets"][2][i][2]["name"][2]>>])>>})

fkpsCaps(f) ==
    When("files" \in DOMAIN f /\ f["files"][2] # <<>>,
         {<<"fkps", setToString(Unquoted(f["files"][2]))>>})

mediariteCaps(f) ==
    When("underlay" \in DOMAIN f /\ f["underlay"] = Bool(TRUE), Flag("mediarite-underlay"))
    \cup
    When("accessGroups" \in DOMAIN f,
         LET groups == InOrder(DOMAIN f["accessGroups"][2])
         IN  {<<"mapi", setToString([i \in DOMAIN groups |->
                <<groups[i], Unquoted(f["accessGroups"][2][groups[i]][2])>>])>>})

\* The size is looked for under a name the reader does not use.
legacyDrmCaps(f) ==
    When("types" \in DOMAIN f, {<<"drm-type", setToString(Unquoted(f["types"][2]))>>})
    \cup
    When("storageSizeKB" \in DOMAIN f /\ f["storageSizeKB"][2] > 0,
         {<<"drm-store", Num(f["storageSizeKB"][2], "")>>})

marketplaceInterceptCaps(f) ==
    When("enable" \in DOMAIN f,
         {<<"intercept", AWord(IF f["enable"][2] THEN "true" ELSE "false")>>})

\* Mutant: an app that may not stay in low power is written as one that may
appAndServiceCapsForgetsLowPower(m) ==
    {<<kConfigXmlPermissionsMap[p], AWord("")>> :
            p \in m.permissions \cap DOMAIN kConfigXmlPermissionsMap}
    \cup When("Suspended" \in m.lifecycle, Flag("suspend-mode"))
    \cup When("Hibernated" \in m.lifecycle, Flag("hibernate-mode"))
    \cup {<<"private-storage", Num(Megabytes(q), "")>> : q \in m.storageQuota}

\* The watchdog is written under a name the reader does not know.
appAndServiceCaps(m) ==
    {<<kConfigXmlPermissionsMap[p], AWord("")>> :
            p \in m.permissions \cap DOMAIN kConfigXmlPermissionsMap}
    \cup {<<"private-storage", Num(Megabytes(q), "")>> : q \in m.storageQuota}
    \cup {<<"sys-memory-limit", Num(Megabytes(q), "m")>> : q \in m.memoryQuota}
    \cup When("Suspended" \in m.lifecycle, Flag("suspend-mode"))
    \cup When("Hibernated" \in m.lifecycle, Flag("hibernate-mode"))
    \cup When("LowPower" \notin m.lifecycle, Flag("no-low-power-mode"))
    \cup When(m.logging # {"default"}, {<<"log-levels", setToString(InOrder(m.logging))>>})
    \cup UNION {When(m.services[s[1]] # <<>>, {<<s[2], toCapabilityValue(m.services[s[1]])>>}) :
            s \in {<<"public", "hole-punch">>, <<"exported", "local-socket-server">>,
                   <<"imported", "local-socket-client">>}}
    \cup {<<"start-timeout-sec", Num(t \div 1000, "")>> : t \in m.startTimeout}
    \cup {<<"watchdog-sec", Num(t \div 1000, "")>> : t \in m.watchdogInterval}
    \cup {<<"child-app", AWord(g)>> : g \in m.storageGroup}

appCaps(m) ==
    UNION {{<<"dial-app", setToString(d.corsDomains)>>}
            \cup When(d.dialIds # <<>>, {<<"dial-id", setToString(d.dialIds)>>})
            \cup When(d.originHeaderRequired, Flag("dial-origin-mandatory")) : d \in m.dialInfo}
    \cup UNION {When(i.captured # <<>>, {<<"keymapping", setToString(i.captured)>>})
            \cup When(i.monitored # <<>>, {<<"forward-keymapping", setToString(i.monitored)>>})
                : i \in m.inputHandling}
    \cup When(m.display.size # 0, {<<"virtual-resolution", Num(m.display.size, "")>>})
    \cup When(m.display.refreshRate = 60, Flag("refresh-rate-60hz"))
    \cup When(m.display.pictureMode = {"gameModeStatic"}, {<<"game-mode", AWord("static")>>})
    \cup When(m.display.pictureMode = {"gameModeDynamic"}, {<<"game-mode", AWord("dynamic")>>})
    \cup {<<"gpu-memory-limit", Num(Megabytes(q), "m")>> : q \in m.gpuMemoryQuota}
    \cup {<<"sound-mode", AWord(s)>> : s \in m.audio.soundMode}
    \cup {<<"sound-scene", AWord(s)>> : s \in m.audio.soundScene}
    \cup {<<"program-reference-level", Num(n, "")>> : n \in m.audio.loudness}
    \cup appAndServiceCaps(m)

serviceCaps(m) == Flag("daemon-app") \cup Flag("system-app") \cup appAndServiceCaps(m)

\* Vendor configurations that are one string or number.
PlainConfigs ==
    [k \in {"catalogue-id", "content-partner-id", "pin-management", "age-policy", "age-rating"} |-> k]
    @@ [k \in {"prelaunch"} |-> "pre-launch"]

genConfigXmlCapabilities(m) ==
    LET v == m.vendorConfig
        Text(j) == IF isString(j) THEN AWord(j[2]) ELSE Num(j[2], "")
        Object(key) == IF key \in DOMAIN v /\ isObject(v[key]) THEN v[key][2] ELSE EmptyObject
    IN  IF m.type \in {"Runtime", "Base"} THEN {}
        ELSE (CASE m.type = "Application" -> appCaps(m)
                [] m.type = "Service" -> serviceCaps(m)
                [] OTHER -> {})
             \cup {<<PlainConfigs[k], Text(v[k])>> : k \in {k \in DOMAIN PlainConfigs \cap DOMAIN v :
                                                                isString(v[k]) \/ isInteger(v[k])}}
             \cup mediariteCaps(Object("mediarite")) \cup multicastCaps(Object("multicast"))
             \cup fkpsCaps(Object("fkps")) \cup legacyDrmCaps(Object("legacy:drm"))
             \cup marketplaceInterceptCaps(Object("marketplace-intercept"))

\* The element that names a filter, in the order the schema wants.
FilterElements ==
    <<<<"platformIds", "platformId">>, <<"platformVariants", "platformVariant">>,
      <<"propositions", "proposition">>, <<"countries", "country">>,
      <<"subdivisions", "subdivision">>, <<"yoctoVersions", "yoctoVersion">>>>

genConfigXmlPlatformFilters(m) ==
    LET config == IF "platform:filters" \in DOMAIN m.vendorConfig
                  THEN m.vendorConfig["platform:filters"][2] ELSE EmptyObject
        Values(key) == IF key \in DOMAIN config THEN InOrder(Range(Unquoted(config[key][2]))) ELSE <<>>
        Elements(pair) == [i \in DOMAIN Values(pair[1]) |-> <<pair[2], Values(pair[1])[i]>>]
    IN  FlattenSeq([i \in DOMAIN FilterElements |-> Elements(FilterElements[i])])

\* The words in what a capability is written with.
WordsOf(name, content) ==
    LET items == IF content[1] = "list" THEN Range(content[2]) ELSE {}
    IN  CASE content[1] = "word" -> {content[2]}
          [] name \in {"hole-punch", "local-socket-server", "local-socket-client"} -> {}
          [] name = "multicast-server-socket" -> UNION {{s[1], s[2]} : s \in items}
          [] name = "multicast-client-socket" -> {s[1] : s \in items}
          [] name = "mapi" -> UNION {{g[1]} \cup Range(g[2]) : g \in items}
          [] OTHER -> items

\* Everything but the version and the title, the two texts that are escaped.
Unescaped(m) ==
    {m.id, m.entryPointPath, m.mimeType[1], m.mimeType[2]}
    \cup (IF m.icons = <<>> THEN {} ELSE {m.icons[1].path, m.icons[1].mimeType})
    \cup {f[2] : f \in Range(genConfigXmlPlatformFilters(m))}
    \cup UNION {WordsOf(c[1], c[2]) : c \in genConfigXmlCapabilities(m)}

\* Markup that is not escaped makes a document no parser reads.
metaDataToConfigXml(m) ==
    LET capabilities == {<<"capability", c[1], c[2]>> : c \in genConfigXmlCapabilities(m)}
        icon == IF m.icons = <<>> THEN <<>>
                ELSE <<<<"icon", m.icons[1].path, m.icons[1].mimeType>>>>
        kind == IF m.mimeType[1] = "service" THEN "application" ELSE m.mimeType[1]
    IN  [format |-> 2,
         valid |-> Unescaped(m) \cap Markup = {},
         head |-> <<<<"name", m.id, m.versionName,
                      IF m.title = {} THEN "" ELSE CHOOSE t \in m.title : TRUE>>>>
                  \o icon
                  \o <<<<"content", m.entryPointPath, kind, m.mimeType[2],
                         genConfigXmlPlatformFilters(m)>>>>,
         capabilities |-> capabilities,
         tail |-> IF \/ "parental-control" \notin DOMAIN m.vendorConfig
                     \/ ~isBool(m.vendorConfig["parental-control"]) THEN <<>>
                  ELSE <<<<"parentalControl",
                           IF m.vendorConfig["parental-control"][2] THEN "true" ELSE "false">>>>]

-----------------------------------------------------------------------------
(* The config JSON *)

createPermissionsJson(permissions) ==
    LET all == InOrder(permissions)
    IN  Arr([i \in DOMAIN all |-> Str(all[i])])

createDependenciesJson(m) ==
    Obj([id \in DOMAIN m.dependencies |-> Str(VersionConstraintToString(m.dependencies[id]))])

TypeNames ==
    [Application |-> "application", Service |-> "service", Runtime |-> "runtime", Base |-> "base"]

\* The entry point and the runtime are written under names the reader does not
\* know, the arguments not at all.
metaDataToConfigSpec(m) ==
    LET Field(key, condition, value) == IF condition THEN [k \in {key} |-> value] ELSE EmptyObject
    IN  [id |-> Str(m.id), version |-> Str(VersionNumberToString(m.version)),
         packageType |-> Str(IF m.type \in DOMAIN TypeNames THEN TypeNames[m.type] ELSE "unknown"),
         entryPointPath |-> Str(m.entryPointPath), dependencies |-> createDependenciesJson(m)]
        @@ Field("versionName", m.versionName # "", Str(m.versionName))
        @@ Field("name", m.title # {}, Str(CHOOSE t \in m.title : TRUE))
        @@ Field("runtimeType", m.type \in {"Application", "Service"}, Str(m.specifier))
        @@ Field("permissions", m.type \in {"Application", "Service"},
                 createPermissionsJson(m.permissions))
        @@ Field("configuration", m.vendorConfig # EmptyObject, Obj(m.vendorConfig))
=============================================================================
