------------------------------ MODULE MetaData ------------------------------
(***************************************************************************)
(* The meta data of a package and the public API that reads it             *)
(* (include/PackageMetaData.h, lib/core/PackageMetaData.cpp).  Both        *)
(* package formats fill the same fields: config.xml of a W3C widget, the   *)
(* config JSON of an OCI package.                                          *)
(*                                                                         *)
(* An optional value is a set: {} when it is missing, {v} when it is v.  A *)
(* result that may be an error is a set too.  Flags are sets of names.  A  *)
(* JSON value is a pair of its type and its value; an array holds a        *)
(* sequence, an object a function of its keys.                             *)
(***************************************************************************)
EXTENDS Versions, Functions

CONSTANTS
    Kilo,               \* 1024
    WordMod,            \* 2^64: the values of a uint64_t
    StorageLimitMb,     \* STORAGE_LIMIT_MB
    DefaultStorageMb,   \* DEFAULT_STORAGE_SIZE, in megabytes
    InvalidIds,         \* ids verifyPackageId() refuses
    InvalidPaths,       \* paths that are absolute or hold ".."
    InvalidAddresses    \* what inet_pton() refuses

\* A quota the code itself chooses is one it would accept.
ASSUME MetaDataAssumption ==
    /\ Kilo \in Nat \ {0, 1} /\ WordMod \in Nat
    /\ DefaultStorageMb \in 1 .. StorageLimitMb
    /\ StorageLimitMb * Kilo * Kilo < WordMod

\* A text in a configuration: a word, or a number and what follows it.
AWord(s) == <<"word", s>>
Num(n, suffix) == <<"number", n, suffix>>

verifyPackageId(id) == id # "" /\ id \notin InvalidIds
verifyPackagePath(path) == path # "" /\ path \notin InvalidPaths

\* A size with its unit; the multiplication wraps.
Scaled(n, suffix) ==
    (n * (CASE suffix = "k" -> Kilo [] suffix = "m" -> Kilo * Kilo
            [] suffix = "g" -> Kilo * Kilo * Kilo [] OTHER -> 1)) % WordMod

Null == <<"null">>
Str(s) == <<"string", s>>
JInt(n) == <<"integer", n>>
Bool(b) == <<"boolean", b>>
Arr(s) == <<"array", s>>
Obj(f) == <<"object", f>>

isString(j) == j[1] = "string"
isInteger(j) == j[1] = "integer"
isBool(j) == j[1] = "boolean"
isArray(j) == j[1] = "array"
isObject(j) == j[1] = "object"

EmptyObject == [k \in {} |-> Null]

\* f with f[k] = v, as JSON objects and the maps of the meta data are written.
Put(f, k, v) == [x \in DOMAIN f \cup {k} |-> IF x = k THEN v ELSE f[x]]

\* std::map::emplace(): what is there already stays.
Emplace(f, k, v) == IF k \in DOMAIN f THEN f ELSE Put(f, k, v)

\* The elements of a set in the order the code sorts them: any fixed one.
InOrder(S) == FoldSet(LAMBDA x, s : Append(s, x), <<>>, S)

\* A network service; the name is only known to OCI packages.
Service(name, protocol, port) == [name |-> name, protocol |-> protocol, port |-> port]
ServiceKinds == {"public", "exported", "imported"}

NoDial == [dialIds |-> <<>>, corsDomains |-> <<>>, originHeaderRequired |-> FALSE]
NoInput == [captured |-> <<>>, monitored |-> <<>>, intercepted |-> <<>>]

\* A meta data object before anything is read into it.
NoMetaData ==
    [id |-> "", version |-> <<0>>, versionName |-> "", type |-> "Unknown",
     mimeType |-> <<"", "">>, specifier |-> "", title |-> {},
     entryPointPath |-> "", entryArgs |-> <<>>, dependencies |-> EmptyObject,
     icons |-> <<>>, permissions |-> {}, storageQuota |-> {}, storageGroup |-> {},
     memoryQuota |-> {}, gpuMemoryQuota |-> {}, lifecycle |-> {"Paused", "LowPower"},
     services |-> [k \in ServiceKinds |-> <<>>], dialInfo |-> {}, inputHandling |-> {},
     display |-> [size |-> 0, refreshRate |-> 0, pictureMode |-> {}],
     audio |-> [soundMode |-> {}, soundScene |-> {}, loudness |-> {}],
     startTimeout |-> {}, watchdogInterval |-> {}, logging |-> {"default"},
     vendorConfig |-> EmptyObject, overrides |-> EmptyObject, appTypes |-> <<>>]

\* The permissions a package can have, named without the scheme of the URN and,
\* for the vendor's, as the capability that asks for them.
RdkPermissions ==
    {"internet", "home-app", "firebolt", "thunder", "rialto", "game-controller",
     "external-storage:read", "external-storage:write", "display-overlay", "compositor",
     "timeshift-buffer"}
EntosPermissions ==
    {"local-services-1", "local-services-2", "local-services-3", "local-services-4",
     "local-services-5", "post-intents", "as-player", "airplay2", "chromecast",
     "bearer-token-authentication", "https-mutual-authentication", "stb-entitlements",
     "entos:timeshiftbuffer", "memory-intensive", "icrypto"}

\* The vendor's configurations that are kept as JSON and interpreted by clients.
EntosConfigurations ==
    {"platform:filters", "mediarite", "pin-management", "prelaunch", "age-rating", "age-policy",
     "content-partner-id", "catalogue-id"}
EntosLegacyConfigurations ==
    {"fkps", "parental-control", "multicast", "legacy:drm", "marketplace-intercept"}

\* The vertical resolutions a DisplaySize stands for; 0 is the default.
DisplaySizes == {480, 576, 720, 1080, 2160, 4320}
LogLevels == {"default", "debug", "info", "milestone", "warning", "error", "fatal"}

-----------------------------------------------------------------------------
(* The public API: what a client of the library can read of a package.       *)

\* The members that the classes of the API give access to: those common to
\* applications and services, those of applications only, those of any package.
ServiceMembers ==
    {"permissions", "storageQuota", "storageGroup", "memoryQuota", "lifecycle", "services",
     "startTimeout", "watchdogInterval", "logging"}

ApplicationMembers == {"dialInfo", "inputHandling", "display", "audio", "gpuMemoryQuota"}

PackageMembers ==
    {"id", "version", "versionName", "type", "mimeType", "title", "entryPointPath", "entryArgs",
     "dependencies", "icons", "vendorConfig", "overrides"}

\* ApplicationAndServiceInfo
appAndServiceInfo(m) ==
    [members |-> Restrict(m, ServiceMembers), runtimeType |-> m.specifier]

applicationInfo(m) ==
    IF m.type # "Application" THEN {}
    ELSE {[common |-> appAndServiceInfo(m), members |-> Restrict(m, ApplicationMembers)]}

serviceInfo(m) == IF m.type # "Service" THEN {} ELSE {appAndServiceInfo(m)}

runtimeInfo(m) == IF m.type # "Runtime" THEN {} ELSE {m.appTypes}

\* Everything there is to see of a meta data object.
PublicView(m) ==
    [members |-> Restrict(m, PackageMembers),
     applicationInfo |-> applicationInfo(m), serviceInfo |-> serviceInfo(m),
     runtimeInfo |-> runtimeInfo(m),
     specifier |-> IF m.specifier = "" THEN {} ELSE {m.specifier}]

=============================================================================
