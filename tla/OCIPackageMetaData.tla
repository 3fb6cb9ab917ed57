------------------------ MODULE OCIPackageMetaData ------------------------
(***************************************************************************)
(* How the config JSON of an OCI package becomes meta data                 *)
(* (lib/oci/OCIPackageMetaDataImpl.cpp): one operator per field and per    *)
(* configuration, each giving the meta data after it, or an error ({}).    *)
(* Configurations are named without "urn:rdk:config:" or                   *)
(* "urn:entos:config:".                                                    *)
(***************************************************************************)
EXTENDS MetaData

\* A key of an object that holds a value of the type the code asks for; any
\* other key or type is ignored with a warning.
Typed(f, key, tag) == key \in DOMAIN f /\ f[key][1] = tag

Or(f, key, tag, default) == IF Typed(f, key, tag) THEN f[key][2] ELSE default

AllStrings(a) == \A i \in DOMAIN a : isString(a[i])
Strings(a) == [i \in DOMAIN SelectSeq(a, isString) |-> SelectSeq(a, isString)[i][2]]

-----------------------------------------------------------------------------
(* Top level fields *)

processId(m, j) ==
    IF isString(j) /\ verifyPackageId(j[2]) THEN {[m EXCEPT !.id = j[2]]} ELSE {}

\* The version's text, as VersionNumber::fromString() reads it.
processVersion(m, j) ==
    IF isString(j) THEN {[m EXCEPT !.version = v] : v \in VersionNumberFromString(j[2])} ELSE {}

processVersionName(m, j) ==
    IF isString(j) /\ j[2] # "" THEN {[m EXCEPT !.versionName = j[2]]} ELSE {}

PackageTypes ==
    [application |-> "Application", runtime |-> "Runtime", service |-> "Service",
     base |-> "Base", resource |-> "Resource"]

processPackageType(m, j) ==
    IF isString(j) /\ j[2] \in DOMAIN PackageTypes
    THEN {[m EXCEPT !.type = PackageTypes[j[2]]]} ELSE {}

processPackageSpecifier(m, j) ==
    IF isString(j) /\ j[2] # "" THEN {[m EXCEPT !.specifier = j[2]]} ELSE {}

processName(m, j) ==
    IF isString(j) /\ j[2] # "" THEN {[m EXCEPT !.title = {j[2]}]} ELSE {}

\* The entry point of an OCI package may be any path.
processEntryPoint(m, j) ==
    IF isString(j) /\ j[2] # "" THEN {[m EXCEPT !.entryPointPath = j[2]]} ELSE {}

processEntryArgs(m, j) ==
    IF isArray(j) /\ AllStrings(j[2]) THEN {[m EXCEPT !.entryArgs = Strings(j[2])]} ELSE {}

\* An object of package ids and the text of a constraint on each.
processDependencies(m, j) ==
    LET Parsed(id) == VersionConstraintFromString(j[2][id][2])
    IN  IF /\ isObject(j)
           /\ \A id \in DOMAIN j[2] :
                isString(j[2][id]) /\ verifyPackageId(id) /\ Parsed(id) # {}
        THEN {[m EXCEPT !.dependencies =
                [id \in DOMAIN j[2] |-> CHOOSE c \in Parsed(id) : TRUE]]}
        ELSE {}

processPermissions(m, j) ==
    IF isArray(j) /\ \A i \in DOMAIN j[2] : isString(j[2][i]) /\ j[2][i][2] # ""
    THEN {[m EXCEPT !.permissions = @ \cup Range(Strings(j[2]))]} ELSE {}

-----------------------------------------------------------------------------
(* Configurations *)

\* An icon without a valid path is left out, whatever else it has.  Of one that is used a key
\* of the wrong type, or a size that is no number, throws.  The text of the sizes is a
\* sequence of pairs, <<>> where what is around the x are no numbers.
IconUsed(f) == verifyPackagePath(Or(f, "src", "string", ""))
IconReadable(f) ==
    /\ "src" \in DOMAIN f => isString(f["src"])
    /\ IconUsed(f) =>
         /\ \A k \in {"type", "purpose", "sizes"} \cap DOMAIN f : isString(f[k])
         /\ \A i \in DOMAIN Or(f, "sizes", "string", <<>>) : f["sizes"][2][i] # <<>>
IconOf(f) == [path |-> f["src"][2], mimeType |-> Or(f, "type", "string", ""),
              purpose |-> Or(f, "purpose", "string", ""),
              sizes |-> Or(f, "sizes", "string", <<>>)]

processIconsConfig(m, j) ==
    LET used == SelectSeq(j[2], LAMBDA i : IconUsed(i[2]))
    IN  IF isArray(j) /\ \A i \in DOMAIN j[2] : isObject(j[2][i]) /\ IconReadable(j[2][i][2])
        THEN {[m EXCEPT !.icons = [i \in DOMAIN used |-> IconOf(used[i][2])]]}
        ELSE {}

processDialConfig(m, j) ==
    IF ~isObject(j) THEN {}
    ELSE IF \E k \in {"appNames", "corsDomains"} :
                Typed(j[2], k, "array") /\ ~AllStrings(j[2][k][2]) THEN {}
    ELSE {[m EXCEPT !.dialInfo =
            {[dialIds |-> Strings(Or(j[2], "appNames", "array", <<>>)),
              corsDomains |-> Strings(Or(j[2], "corsDomains", "array", <<>>)),
              originHeaderRequired |-> Or(j[2], "originHeaderRequired", "boolean", FALSE)]}]}

\* The default level is always among them.
processLogLevelsConfig(m, j) ==
    IF isArray(j) /\ AllStrings(j[2])
    THEN {[m EXCEPT !.logging = {"default"} \cup (Range(Strings(j[2])) \cap LogLevels)]} ELSE {}

\* An entry of the network configuration.  The port is cut to 16 bits.
PortMod == 65536
PortOf(f) == Or(f, "port", "integer", 0) % PortMod
ServiceOf(f) ==
    Service(Or(f, "name", "string", ""),
            IF Or(f, "protocol", "string", "tcp") = "udp" THEN "udp" ELSE "tcp", PortOf(f))

\* The services of one kind, behind those there are; an entry without a port or a kind is
\* left out.
AddServices(services, kind, entries) ==
    LET Wanted(f) == PortOf(f) # 0 /\ Or(f, "type", "string", "") = kind
        Added[n \in 0 .. Len(entries)] ==
            IF n = 0 THEN services
            ELSE IF Wanted(entries[n][2]) THEN Append(Added[n - 1], ServiceOf(entries[n][2]))
            ELSE Added[n - 1]
    IN  Added[Len(entries)]

processNetworkConfig(m, j) ==
    IF isArray(j) /\ \A i \in DOMAIN j[2] : isObject(j[2][i])
    THEN {[m EXCEPT !.services = [k \in ServiceKinds |-> AddServices(m.services[k], k, j[2])]]}
    ELSE {}

LifecycleNames == [paused |-> "Paused", suspended |-> "Suspended", hibernated |-> "Hibernated"]

\* Mutant: the supported states are replaced by the ones that are listed
processAppLifecycleConfigReplaces(m, j) ==
    LET f == j[2]
        states == Range(Strings(Or(f, "supportedNonActiveStates", "array", <<>>)))
    IN  IF ~isObject(j) THEN {}
        ELSE {[m EXCEPT !.lifecycle = {LifecycleNames[s] : s \in states \cap DOMAIN LifecycleNames}]}

\* Times are in seconds; a negative one is ignored.
processAppLifecycleConfig(m, j) ==
    LET f == j[2]
        states == Range(Strings(Or(f, "supportedNonActiveStates", "array", <<>>)))
        Time(key, old) == IF Or(f, key, "integer", -1) < 0 THEN old ELSE {f[key][2] * 1000}
    IN  IF ~isObject(j) THEN {}
        ELSE {[m EXCEPT !.lifecycle =
                    @ \cup {LifecycleNames[s] : s \in states \cap DOMAIN LifecycleNames},
                        !.startTimeout = Time("startupTimeout", @),
                        !.watchdogInterval = Time("watchdogInterval", @)]}

processLowPowerTerminateConfig(m, j) ==
    IF ~isBool(j) THEN {}
    ELSE {[m EXCEPT !.lifecycle = IF j[2] THEN @ \ {"LowPower"} ELSE @ \cup {"LowPower"}]}

\* No number, no size.
parseMemorySize(text) == IF text[1] = "number" THEN {Scaled(text[2], text[3])} ELSE {}

\* Unlike elsewhere a value of the wrong type is an error here.
processStorageConfig(m, j) ==
    LET f == j[2]
    IN  IF \/ ~isObject(j)
           \/ \E k \in {"maxLocalStorage", "sharedStorageAppId"} \cap DOMAIN f : ~isString(f[k])
           \/ "sharedStorageAppId" \in DOMAIN f /\ ~verifyPackageId(f["sharedStorageAppId"][2])
        THEN {}
        ELSE {[m EXCEPT !.storageQuota = IF "maxLocalStorage" \in DOMAIN f
                                         THEN parseMemorySize(f["maxLocalStorage"][2]) ELSE @,
                        !.storageGroup = IF "sharedStorageAppId" \in DOMAIN f
                                         THEN {f["sharedStorageAppId"][2]} ELSE @]}

processMemoryConfig(m, j) ==
    LET Size(key, old) == IF Typed(j[2], key, "string") THEN parseMemorySize(j[2][key][2]) ELSE old
    IN  IF ~isObject(j) THEN {}
        ELSE {[m EXCEPT !.memoryQuota = Size("system", @), !.gpuMemoryQuota = Size("gpu", @)]}

\* An input handling without a key is none at all.
processInputHandlingConfig(m, j) ==
    LET Keys(key) == Strings(Or(j[2], key, "array", <<>>))
        input == [captured |-> Keys("keyCapture"), monitored |-> Keys("keyMonitor"),
                  intercepted |-> Keys("keyIntercept")]
    IN  CASE ~isObject(j) -> {}
          [] isObject(j) /\ input = NoInput -> {m}
          [] OTHER -> {[m EXCEPT !.inputHandling = {input}]}

processWindowConfig(m, j) ==
    LET size == Or(j[2], "virtualDisplaySize", "integer", 0)
    IN  IF ~isObject(j) THEN {}
        ELSE {[m EXCEPT !.display.size = IF size \in DisplaySizes THEN size ELSE @]}

processDisplayConfig(m, j) ==
    LET rate == Or(j[2], "refreshRateHz", "integer", 0)
    IN  IF ~isObject(j) THEN {}
        ELSE {[m EXCEPT !.display.refreshRate = IF rate \in {50, 60} THEN rate ELSE @,
                        !.display.pictureMode = IF Typed(j[2], "pictureMode", "string")
                                                THEN {j[2]["pictureMode"][2]} ELSE @]}

processAudioConfig(m, j) ==
    LET Set(key, tag, old) == IF Typed(j[2], key, tag) THEN {j[2][key][2]} ELSE old
    IN  IF ~isObject(j) THEN {}
        ELSE {[m EXCEPT !.audio = [soundMode |-> Set("soundMode", "string", @.soundMode),
                                   soundScene |-> Set("soundScene", "string", @.soundScene),
                                   loudness |-> Set("loudnessAdjustment", "integer", @.loudness)]]}

processOverridesConfig(m, j) ==
    IF ~isObject(j) THEN {}
    ELSE {[m EXCEPT !.overrides =
            [k \in DOMAIN @ \cup ({"application", "runtime", "base"} \cap DOMAIN j[2]) |->
                IF k \in DOMAIN j[2] THEN j[2][k] ELSE @[k]]]}

\* An entry without a type is left out.
processRuntimeConfig(m, j) ==
    LET types == Or(j[2], "supportedApplicationTypes", "array", <<>>)
        used == SelectSeq(types, LAMBDA t : Or(t[2], "type", "string", "") # "")
        Entry(f) == [type |-> f["type"][2], args |-> IF Typed(f, "args", "object") THEN f["args"] ELSE Null]
    IN  CASE ~isObject(j) -> {}
          [] isObject(j) /\ "supportedApplicationTypes" \notin DOMAIN j[2] -> {m}
          [] OTHER -> IF isArray(j[2]["supportedApplicationTypes"])
                         /\ \A i \in DOMAIN types : isObject(types[i])
                      THEN {[m EXCEPT !.appTypes = [i \in DOMAIN used |-> Entry(used[i][2])]]}
                      ELSE {}

\* One key of the configuration object.  Every value is kept as it is too.
processConfig(m, key, j) ==
    LET kept == [m EXCEPT !.vendorConfig = Emplace(@, key, j)]
    IN  CASE key = "icons" -> processIconsConfig(kept, j)
          [] key = "memory" -> processMemoryConfig(kept, j)
          [] key = "storage" -> processStorageConfig(kept, j)
          [] key = "dial" -> processDialConfig(kept, j)
          [] key = "network" -> processNetworkConfig(kept, j)
          [] key = "log-levels" -> processLogLevelsConfig(kept, j)
          [] key = "application-lifecycle" -> processAppLifecycleConfig(kept, j)
          [] key = "low-power:terminate" -> processLowPowerTerminateConfig(kept, j)
          [] key = "input-handling" -> processInputHandlingConfig(kept, j)
          [] key = "window" -> processWindowConfig(kept, j)
          [] key = "display" -> processDisplayConfig(kept, j)
          [] key = "audio" -> processAudioConfig(kept, j)
          [] key = "overrides" -> processOverridesConfig(kept, j)
          [] key = "runtime" -> processRuntimeConfig(kept, j)
          [] OTHER -> {kept}

\* The keys the code knows, in the order the JSON library hands them out.
ConfigOrder ==
    <<"audio", "display", "icons", "low-power:terminate", "application-lifecycle", "dial",
      "input-handling", "log-levels", "memory", "network", "overrides", "runtime", "storage",
      "window">>

\* The one of these keys that comes last; the others' order is any fixed one.
LastKey(keys) ==
    LET known == {i \in DOMAIN ConfigOrder : ConfigOrder[i] \in keys}
    IN  IF keys \subseteq Range(ConfigOrder) THEN ConfigOrder[Max(known)]
        ELSE CHOOSE key \in keys \ Range(ConfigOrder) : TRUE

processConfiguration(m, j) ==
    LET f == j[2]
        Configured[keys \in SUBSET DOMAIN f] ==
            IF keys = {} THEN {m}
            ELSE LET key == LastKey(keys)
                 IN  UNION {processConfig(n, key, f[key]) : n \in Configured[keys \ {key}]}
    IN  IF isObject(j) THEN Configured[DOMAIN f] ELSE {}

\* What the accessors give: every member; an override that is not there is null.
accessors(m) ==
    [m EXCEPT !.overrides = [k \in {"application", "runtime", "base"} |->
                                IF k \in DOMAIN @ THEN @[k] ELSE Null]]

-----------------------------------------------------------------------------
(* The document *)

processField(m, key, j) ==
    CASE key = "id" -> processId(m, j)
      [] key = "version" -> processVersion(m, j)
      [] key = "packageType" -> processPackageType(m, j)
      [] key = "entryPoint" -> processEntryPoint(m, j)
      [] key = "name" -> processName(m, j)
      [] key = "versionName" -> processVersionName(m, j)
      [] key = "entryArgs" -> processEntryArgs(m, j)
      [] key = "packageSpecifier" -> processPackageSpecifier(m, j)
      [] key = "dependencies" -> processDependencies(m, j)
      [] key = "permissions" -> processPermissions(m, j)
      [] OTHER -> processConfiguration(m, j)

RequiredFields == <<"id", "version", "packageType", "entryPoint">>
OptionalFields == <<"name", "versionName", "entryArgs", "packageSpecifier", "dependencies",
                    "permissions", "configuration">>

\* A field of the document, which may be missing when it is optional.
readField(m, key, json) ==
    IF key \in DOMAIN json THEN processField(m, key, json[key])
    ELSE IF key \in Range(OptionalFields) THEN {m} ELSE {}

\* The mime type is made of the package's type and its specifier.
finishConfigJson(m) ==
    LET kind == CHOOSE k \in DOMAIN PackageTypes : PackageTypes[k] = m.type
    IN  [m EXCEPT !.mimeType = <<kind, IF m.specifier = "" THEN "unknown" ELSE m.specifier>>]

\* The whole document: an object of fields, read in the order above.
fromConfigJson(json) ==
    LET Step(results, key) == UNION {readField(m, key, json) : m \in results}
    IN  {finishConfigJson(m) : m \in FoldLeft(Step, {NoMetaData}, RequiredFields \o OptionalFields)}
=============================================================================
