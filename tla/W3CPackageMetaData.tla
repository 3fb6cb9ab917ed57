------------------------ MODULE W3CPackageMetaData ------------------------
(***************************************************************************)
(* How config.xml of a W3C widget becomes meta data                        *)
(* (lib/w3c-widget/W3CPackageMetaDataImpl.cpp): one operator per element   *)
(* and per capability handler, each giving the meta data after it, or an   *)
(* error.                                                                  *)
(*                                                                         *)
(* An element is <<"name", short, version, title>>, <<"icon", src, type>>, *)
(* <<"content", src, kind, runtime, filters>>,                             *)
(* <<"capability", name, content>>, <<"parentalControl", text>> or         *)
(* <<"unknown">>.  The trimmed content of a capability is a word, a number *)
(* with what follows it, or the list it splits into.                       *)
(***************************************************************************)
EXTENDS MetaData

List(items) == <<"list", items>>

\* What strtoul() makes of a content, 0 when it does not start with a number.
strtoul(c) == IF c[1] = "number" THEN c[2] ELSE 0

splitStringToVector(c) ==
    CASE c[1] = "list" -> c[2]
      [] c = AWord("") -> <<>>
      [] OTHER -> <<c[2]>>

splitStringToSet(c) == Range(splitStringToVector(c))

\* The content as text, for the capabilities that keep it as it is.
AsText(c) == c[2]

StrArray(seq) == Arr([i \in DOMAIN seq |-> Str(seq[i])])

-----------------------------------------------------------------------------
(* Top level elements *)

processName(m, short, version, title) ==
    IF verifyPackageId(short) /\ version # ""
    THEN {[m EXCEPT !.id = short, !.versionName = version, !.title = {title}]}
    ELSE {}

\* An icon that cannot be used is left out, which is no error.
processIcon(m, src, type) ==
    IF verifyPackagePath(src)
    THEN [m EXCEPT !.icons = Append(@, [path |-> src, mimeType |-> type,
                                            purpose |-> "", sizes |-> <<>>])]
    ELSE m

processContentV1(m, src, kind, runtime) ==
    IF ~verifyPackagePath(src) \/ kind \notin {"application", "runtime"}
    THEN {}
    ELSE {[m EXCEPT !.entryPointPath = src, !.mimeType = <<kind, runtime>>,
                    !.specifier = runtime,
                    !.type = CASE kind = "runtime" -> "Runtime"
                               [] kind = "application" /\ @ = "Unknown" -> "Application"
                               [] OTHER -> @]}

\* The elements of <platformFilters> and the list each adds to.
FilterKey ==
    [platformId |-> "platformIds", platformVariant |-> "platformVariants",
     region |-> "countries", country |-> "countries", subdivision |-> "subdivisions",
     proposition |-> "propositions", yoctoVersion |-> "yoctoVersions"]

\* The object for a sequence of <<element, name>>; a filter without a name and
\* one that is not known are left out.
PlatformFilters(filters) ==
    LET used == SelectSeq(filters, LAMBDA f : f[1] \in DOMAIN FilterKey /\ f[2] # "")
        Named(key) == SelectSeq(used, LAMBDA f : FilterKey[f[1]] = key)
    IN  [key \in {FilterKey[used[i][1]] : i \in DOMAIN used} |->
            Arr([i \in DOMAIN Named(key) |-> Str(Named(key)[i][2])])]

processContentV2(m, src, kind, runtime, filters) ==
    {IF PlatformFilters(filters) = EmptyObject THEN n
     ELSE [n EXCEPT !.vendorConfig = Emplace(@, "platform:filters", Obj(PlatformFilters(filters)))]
        : n \in processContentV1(m, src, kind, runtime)}

processParentalControl(m, text) ==
    IF text \notin {"true", "false"} THEN m
    ELSE [m EXCEPT !.vendorConfig = Emplace(@, "parental-control", Bool(text = "true"))]

-----------------------------------------------------------------------------
(* Capabilities *)

\* The capabilities that only grant permissions.
GrantingCapabilities ==
    {"home-app", "compositor-app", "wan-lan", "lan-wan", "issue-notifications", "usb-mass-storage",
     "read-external-storage", "write-external-storage", "tsb-storage", "local-services-1",
     "local-services-2", "local-services-3", "local-services-4", "local-services-5", "post-intents",
     "firebolt", "thunder", "rialto", "airplay2", "chromecast", "as-player", "game-controller",
     "bearer-token-authentication", "https-mutual-authentication", "stb-entitlements",
     "memory-intensive", "icrypto"}

\* The permissions they grant; most are named like their capability.
kPermissionMap ==
    [c \in GrantingCapabilities |->
        CASE c = "home-app" -> {"home-app", "compositor"}
          [] c = "compositor-app" -> {"compositor"}
          [] c \in {"wan-lan", "lan-wan"} -> {"internet"}
          [] c = "issue-notifications" -> {"display-overlay"}
          [] c \in {"usb-mass-storage", "read-external-storage"} -> {"external-storage:read"}
          [] c = "write-external-storage" -> {"external-storage:write"}
          [] c = "tsb-storage" -> {"entos:timeshiftbuffer"}
          [] OTHER -> {c}]

\* A system app is a service, unless the content says it is a runtime.
processCapabilitySystemApp(m) ==
    [m EXCEPT !.type = IF @ = "Runtime" THEN @ ELSE "Service"]

\* The input handling object is made by the first of the two capabilities.
processCapabilityKeyMapping(m, name, c) ==
    LET input == IF m.inputHandling = {} THEN NoInput ELSE CHOOSE i \in m.inputHandling : TRUE
        keys == splitStringToVector(c)
    IN  [m EXCEPT !.inputHandling =
            {IF name = "keymapping" THEN [input EXCEPT !.captured = keys]
                                    ELSE [input EXCEPT !.monitored = keys]}]

\* Mutant: storage sets the default over what private-storage asked for
processCapabilityStorageSizeDefaultWins(m, name, c) ==
    LET mb == strtoul(c)
    IN  CASE name = "private-storage" /\ mb \in 1 .. StorageLimitMb ->
                [m EXCEPT !.storageQuota = {mb * Kilo * Kilo}]
          [] name = "storage" -> [m EXCEPT !.storageQuota = {DefaultStorageMb * Kilo * Kilo}]
          [] OTHER -> m

\* private-storage names a size; storage gives the default to an app that has
\* none yet.
processCapabilityStorageSize(m, name, c) ==
    LET mb == strtoul(c)
    IN  CASE name = "private-storage" /\ mb \in 1 .. StorageLimitMb ->
                [m EXCEPT !.storageQuota = {mb * Kilo * Kilo}]
          [] name = "storage" /\ m.storageQuota = {} ->
                [m EXCEPT !.storageQuota = {DefaultStorageMb * Kilo * Kilo}]
          [] OTHER -> m

processCapabilityDialInfo(m, name, c) ==
    LET dial == IF m.dialInfo = {} THEN NoDial ELSE CHOOSE d \in m.dialInfo : TRUE
    IN  [m EXCEPT !.dialInfo =
            {CASE name = "dial-app" /\ c # AWord("") ->
                    [dial EXCEPT !.corsDomains = splitStringToVector(c)]
               [] name = "dial-id" -> [dial EXCEPT !.dialIds = splitStringToVector(c)]
               [] name = "dial-origin-mandatory" -> [dial EXCEPT !.originHeaderRequired = TRUE]
               [] OTHER -> dial}]

\* Only p and i may follow a resolution.
processCapabilityDisplayInfo(m, name, c) ==
    CASE name = "virtual-resolution" ->
            [m EXCEPT !.display.size =
                IF c[1] = "number" /\ c[2] \in DisplaySizes /\ c[3] \in {"", "p", "i"}
                THEN c[2] ELSE 0]
      [] name = "refresh-rate-60hz" -> [m EXCEPT !.display.refreshRate = 60]
      [] name = "game-mode" /\ c = AWord("static") ->
            [m EXCEPT !.display.pictureMode = {"gameModeStatic"}]
      [] name = "game-mode" /\ c = AWord("dynamic") ->
            [m EXCEPT !.display.pictureMode = {"gameModeDynamic"}]
      [] OTHER -> m

processCapabilityAudioInfo(m, name, c) ==
    CASE name = "sound-mode" -> [m EXCEPT !.audio.soundMode = {AsText(c)}]
      [] name = "sound-scene" -> [m EXCEPT !.audio.soundScene = {AsText(c)}]
      [] OTHER -> [m EXCEPT !.audio.loudness = {strtoul(c)}]

processCapabilityFKPS(m, c) ==
    LET files == SelectSeq(splitStringToVector(c), verifyPackagePath)
    IN  IF files = <<>> THEN m
        ELSE [m EXCEPT !.vendorConfig =
                Emplace(@, "fkps", Obj([k \in {"files"} |-> StrArray(files)]))]

processCapabilityLifecycleStates(m, name) ==
    [m EXCEPT !.lifecycle =
        CASE name = "suspend-mode" -> @ \cup {"Suspended"}
          [] name = "hibernate-mode" -> @ \cup {"Hibernated"}
          [] OTHER -> @ \ {"LowPower"}]

processCapabilityParentPackageId(m, c) ==
    IF verifyPackageId(AsText(c)) THEN [m EXCEPT !.storageGroup = {AsText(c)}] ELSE m

\* catalogue-id, content-partner-id and age-policy are kept as they are.
processCapabilityCatalogueId(m, c) ==
    [m EXCEPT !.vendorConfig = Emplace(@, "catalogue-id", Str(AsText(c)))]
processCapabilityContentPartnerId(m, c) ==
    [m EXCEPT !.vendorConfig = Emplace(@, "content-partner-id", Str(AsText(c)))]
processCapabilityAgePolicy(m, c) ==
    [m EXCEPT !.vendorConfig = Emplace(@, "age-policy", Str(AsText(c)))]

\* A number too large for strtoul() gives its largest result and is ignored.
processCapabilityAgeRating(m, c) ==
    IF strtoul(c) = WordMod - 1 THEN m
    ELSE [m EXCEPT !.vendorConfig = Emplace(@, "age-rating", JInt(strtoul(c)))]

\* stoul() throws when there is no number, which refuses the document.  Times
\* are kept in milliseconds, and are at least five seconds.
processCapabilityWatchdog(m, name, c) ==
    LET ms == Max({5, strtoul(c)}) * 1000
    IN  IF c[1] # "number" THEN {}
        ELSE {IF name = "start-timeout-sec" THEN [m EXCEPT !.startTimeout = {ms}]
                                            ELSE [m EXCEPT !.watchdogInterval = {ms}]}

processCapabilityLogging(m, c) ==
    [m EXCEPT !.logging = @ \cup (splitStringToSet(c) \cap LogLevels)]

processCapabilityPreLaunch(m, c) ==
    IF AsText(c) \notin {"allowed", "recent", "never"} THEN m
    ELSE [m EXCEPT !.vendorConfig = Emplace(@, "prelaunch", Str(AsText(c)))]

\* The port as the code keeps it, in 16 bits, and the ports it lets through.
Port16(n) == n % 65536
ValidPort(n) == n > 1024 /\ n < 65535

\* Items are <<protocol, port>>; no protocol is tcp.  The port is cut to 16
\* bits before it is checked.
processCapabilityServices(m, name, c) ==
    LET used == SelectSeq(splitStringToVector(c),
                          LAMBDA s : s[1] \in {"", "tcp", "udp"} /\ ValidPort(Port16(s[2])))
        kind == CASE name = "hole-punch" -> "public"
                  [] name = "local-socket-server" -> "exported"
                  [] OTHER -> "imported"
        Entry(s) == Service("", IF s[1] = "udp" THEN "udp" ELSE "tcp", Port16(s[2]))
    IN  [m EXCEPT !.services[kind] = @ \o [i \in DOMAIN used |-> Entry(used[i])]]

processCapabilityMemoryLimits(m, name, c) ==
    IF c[1] # "number" THEN {}
    ELSE {IF name = "sys-memory-limit" THEN [m EXCEPT !.memoryQuota = {Scaled(c[2], c[3])}]
                                       ELSE [m EXCEPT !.gpuMemoryQuota = {Scaled(c[2], c[3])}]}

\* The object a vendor configuration holds; an empty one is put there first.
ConfigObject(m, key) ==
    IF key \in DOMAIN m.vendorConfig THEN m.vendorConfig[key][2] ELSE EmptyObject
SetConfig(m, key, f) == [m EXCEPT !.vendorConfig = Put(@, key, Obj(f))]

processCapabilityDrm(m, name, c) ==
    LET config == ConfigObject(m, "legacy:drm")
        stored == CASE name = "drm-type" -> Put(config, "types", StrArray(splitStringToVector(c)))
                    [] name = "drm-store" /\ strtoul(c) # WordMod - 1 ->
                            Put(config, "storageSize", JInt((strtoul(c) * Kilo) % WordMod))
                    [] OTHER -> config
    IN  SetConfig(m, "legacy:drm", stored)

\* "READ-WRITE" and the like are spelled in several ways; the word here is
\* what is left without dashes and in lower case.
processCapabilityPinManagement(m, c) ==
    [m EXCEPT !.vendorConfig =
        Emplace(@, "pin-management",
                Str(IF AsText(c) \in {"readwrite", "readonly"} THEN AsText(c) ELSE "excluded"))]

\* Items of mapi are <<group, names>>, or <<group>> without a colon.
processCapabilityMediarite(m, name, c) ==
    LET config == ConfigObject(m, "mediarite")
        groups == SelectSeq(splitStringToVector(c), LAMBDA g : Len(g) = 2)
        Names(g) == groups[Max({i \in DOMAIN groups : groups[i][1] = g})][2]
        access == [g \in {groups[i][1] : i \in DOMAIN groups} |-> StrArray(Names(g))]
    IN  SetConfig(m, "mediarite",
            CASE name = "mediarite-underlay" -> Emplace(config, "underlay", Bool(TRUE))
              [] name = "mapi" /\ groups # <<>> -> Emplace(config, "accessGroups", Obj(access))
              [] OTHER -> config)

\* Items are <<address, port>> to forward, <<name, address, port>> to serve and
\* <<name>> to connect to.  Here the port is checked before it is cut.
processCapabilityMulticast(m, name, c) ==
    LET config == ConfigObject(m, "multicast")
        items == InOrder(splitStringToSet(c))
        Usable(n) == SelectSeq(items, LAMBDA s :
                        Len(s) = n /\ s[n - 1] \notin InvalidAddresses /\ ValidPort(s[n]))
        Address(s) == [address |-> Str(s[1]), port |-> JInt(s[2])]
        Socket(s) == [name |-> Str(s[1]), address |-> Str(s[2]), port |-> JInt(s[3])]
        Add(key, seq) == IF seq = <<>> THEN config ELSE Emplace(config, key, Arr(seq))
    IN  SetConfig(m, "multicast",
            CASE name = "forward-multicast" ->
                    Add("forwarding", [i \in DOMAIN Usable(2) |-> Obj(Address(Usable(2)[i]))])
              [] name = "multicast-server-socket" ->
                    Add("serverSockets", [i \in DOMAIN Usable(3) |-> Obj(Socket(Usable(3)[i]))])
              [] OTHER -> Add("clientSockets", [i \in DOMAIN items |->
                                    Obj([k \in {"name"} |-> Str(items[i][1])])]))

processCapabilityAppIntercept(m, c) ==
    IF AsText(c) \notin {"true", "false"} THEN m
    ELSE [m EXCEPT !.vendorConfig =
            Emplace(@, "marketplace-intercept",
                    Obj([k \in {"enable"} |-> Bool(AsText(c) = "true")]))]

\* One <capability>; a name that is not known is ignored.
processCapability(m, name, c) ==
    CASE name \in DOMAIN kPermissionMap ->
            {[m EXCEPT !.permissions = @ \cup kPermissionMap[name]]}
      [] name \in {"system-app", "daemon-app"} -> {processCapabilitySystemApp(m)}
      [] name = "child-app" -> {processCapabilityParentPackageId(m, c)}
      [] name \in {"suspend-mode", "hibernate-mode", "no-low-power-mode"} ->
            {processCapabilityLifecycleStates(m, name)}
      [] name \in {"keymapping", "forward-keymapping"} ->
            {processCapabilityKeyMapping(m, name, c)}
      [] name \in {"storage", "private-storage"} -> {processCapabilityStorageSize(m, name, c)}
      [] name \in {"dial-app", "dial-id", "dial-origin-mandatory"} ->
            {processCapabilityDialInfo(m, name, c)}
      [] name \in {"game-mode", "virtual-resolution", "refresh-rate-60hz"} ->
            {processCapabilityDisplayInfo(m, name, c)}
      [] name \in {"program-reference-level", "sound-mode", "sound-scene"} ->
            {processCapabilityAudioInfo(m, name, c)}
      [] name = "fkps" -> {processCapabilityFKPS(m, c)}
      [] name \in {"hole-punch", "local-socket-server", "local-socket-client"} ->
            {processCapabilityServices(m, name, c)}
      [] name \in {"mediarite-underlay", "mapi"} -> {processCapabilityMediarite(m, name, c)}
      [] name = "catalogue-id" -> {processCapabilityCatalogueId(m, c)}
      [] name = "content-partner-id" -> {processCapabilityContentPartnerId(m, c)}
      [] name = "age-rating" -> {processCapabilityAgeRating(m, c)}
      [] name = "age-policy" -> {processCapabilityAgePolicy(m, c)}
      [] name = "pre-launch" -> {processCapabilityPreLaunch(m, c)}
      [] name = "log-levels" -> {processCapabilityLogging(m, c)}
      [] name \in {"start-timeout-sec", "watchdog-timeout-sec"} ->
            processCapabilityWatchdog(m, name, c)
      [] name \in {"sys-memory-limit", "gpu-memory-limit"} ->
            processCapabilityMemoryLimits(m, name, c)
      [] name \in {"drm-type", "drm-store"} -> {processCapabilityDrm(m, name, c)}
      [] name = "pin-management" -> {processCapabilityPinManagement(m, c)}
      [] name \in {"forward-multicast", "multicast-server-socket", "multicast-client-socket"} ->
            {processCapabilityMulticast(m, name, c)}
      [] name = "intercept" -> {processCapabilityAppIntercept(m, c)}
      [] OTHER -> {m}

\* What the accessors give: a widget has no version of its own but a name for
\* it, and no arguments, dependencies or overrides.
accessors(m) ==
    [m EXCEPT !.version = <<0>>, !.entryArgs = <<>>, !.dependencies = EmptyObject,
              !.overrides = [k \in {"application", "runtime", "base"} |-> Null]]

-----------------------------------------------------------------------------
(* The document *)

\* One element of config.xml, format 1 or 2.
processElement(m, e, format) ==
    CASE e[1] = "name" -> processName(m, e[2], e[3], e[4])
      [] e[1] = "icon" -> {processIcon(m, e[2], e[3])}
      [] e[1] = "content" /\ format = 1 -> processContentV1(m, e[2], e[3], e[4])
      [] e[1] = "content" /\ format = 2 -> processContentV2(m, e[2], e[3], e[4], e[5])
      [] e[1] = "capability" -> processCapability(m, e[2], e[3])
      [] e[1] = "parentalControl" -> {processParentalControl(m, e[2])}
      [] OTHER -> {m}

\* What is checked once all elements are read.  A runtime supports the
\* application type its content names.
finishConfigXml(m) ==
    IF m.id = "" \/ m.versionName = "" \/ m.type = "Unknown" \/ m.entryPointPath = ""
    THEN {}
    ELSE {IF m.type = "Runtime" /\ m.specifier # ""
          THEN [m EXCEPT !.appTypes = Append(@, [type |-> m.specifier, args |-> Null])]
          ELSE m}

\* What an element makes of each of these results; an error leaves none.
Step(results, e, format) == UNION {processElement(m, e, format) : m \in results}

\* The results after the first elements of a sequence.
ReadList(results, list, format) ==
    LET Read[n \in 0 .. Len(list)] ==
            IF n = 0 THEN results ELSE Step(Read[n - 1], list[n], format)
    IN  Read

\* The results after some of the capabilities of a set, read in any fixed order.
ReadSet(results, set, format) ==
    LET Read[some \in SUBSET set] ==
            IF some = {} THEN results
            ELSE LET e == CHOOSE e \in some : TRUE IN Step(Read[some \ {e}], e, format)
    IN  Read

\* The whole document: what the schema puts before the capabilities, the
\* capabilities (a set: their order is another run of the same document) and
\* what comes after them.  A document that is not well formed, or that the
\* schema of its version does not allow, is refused.
fromConfigXml(doc) ==
    LET head == ReadList({NoMetaData}, doc.head, doc.format)[Len(doc.head)]
        capabilities == ReadSet(head, doc.capabilities, doc.format)[doc.capabilities]
        read == ReadList(capabilities, doc.tail, doc.format)[Len(doc.tail)]
    IN  IF doc.valid THEN UNION {finishConfigXml(m) : m \in read} ELSE {}
=============================================================================
