----------------------------- MODULE MCMetaData -----------------------------
(***************************************************************************)
(* Documents for MetaDataBuild: every pair of capabilities under several   *)
(* heads, every two configurations of an OCI package, and every constraint *)
(* over versions of two values.                                            *)
(***************************************************************************)
EXTENDS MetaDataBuild

Cap(name, content) == <<"capability", name, content>>
List(items) == <<"list", items>>

\* One content or more for every handler, the ones it refuses included.
Capabilities ==
    {Cap(name, AWord("")) : name \in
        {"home-app", "compositor-app", "wan-lan", "issue-notifications", "firebolt", "tsb-storage",
         "system-app", "daemon-app", "suspend-mode", "hibernate-mode", "no-low-power-mode",
         "storage", "dial-origin-mandatory", "refresh-rate-60hz", "mediarite-underlay",
         "unknown", "keymapping", "dial-app"}}
    \cup {Cap("child-app", AWord("group")), Cap("child-app", AWord("bad id")),
          Cap("keymapping", List(<<"up", "down">>)), Cap("forward-keymapping", AWord("up")),
          Cap("private-storage", Num(2, "")), Cap("private-storage", Num(9, "")),
          Cap("dial-app", AWord("domain")), Cap("dial-id", List(<<"a", "b">>)),
          Cap("game-mode", AWord("static")), Cap("game-mode", AWord("dynamic")),
          Cap("virtual-resolution", Num(720, "p")), Cap("virtual-resolution", Num(721, "")),
          Cap("program-reference-level", Num(23, "")), Cap("sound-mode", AWord("a<b")),
          Cap("sound-scene", AWord("night")), Cap("fkps", List(<<"/abs", "file", "a<b">>)),
          Cap("hole-punch", List(<<<<"udp", 1025>>, <<"", 1024>>, <<"sctp", 2000>>>>)),
          Cap("local-socket-server", List(<<<<"", 70000>>>>)),
          Cap("local-socket-client", List(<<<<"tcp", 65535>>, <<"tcp", 65534>>>>)),
          Cap("mapi", List(<<<<"g", <<"n", "m">>>>, <<"h">>>>)),
          Cap("mapi", List(<<<<"g", <<"a<b">>>>>>)),
          Cap("catalogue-id", AWord("catalogue")), Cap("content-partner-id", AWord("partner")),
          Cap("age-rating", Num(12, "")), Cap("age-rating", Num(4095, "")),
          Cap("age-policy", AWord("kids")), Cap("pre-launch", AWord("recent")),
          Cap("pre-launch", AWord("other")), Cap("log-levels", List(<<"debug", "loud">>)),
          Cap("start-timeout-sec", Num(7, "")), Cap("start-timeout-sec", AWord("soon")),
          Cap("watchdog-timeout-sec", Num(2, "")),
          Cap("sys-memory-limit", Num(3, "m")), Cap("sys-memory-limit", Num(6, "")),
          Cap("gpu-memory-limit", Num(8, "")), Cap("gpu-memory-limit", AWord("lots")),
          Cap("drm-type", List(<<"x", "y">>)), Cap("drm-store", Num(2, "")),
          Cap("pin-management", AWord("readonly")), Cap("pin-management", AWord("other")),
          Cap("forward-multicast", List(<<<<"10.0.0.1", 5000>>, <<"no address", 5001>>>>)),
          Cap("multicast-server-socket", List(<<<<"s", "10.0.0.1", 5000>>>>)),
          Cap("multicast-client-socket", List(<<<<"c">>>>)),
          Cap("intercept", AWord("true")), Cap("intercept", AWord("perhaps"))}

Document(format, head, capabilities, tail) ==
    [format |-> format, valid |-> TRUE, head |-> head, capabilities |-> capabilities, tail |-> tail]

\* The schema asks for a name, icons, a content and the capabilities.
AName == <<"name", "app", "1.0", "title">>
AnIcon == <<"icon", "icon.png", "png">>
Content(type, runtime, filters) == <<"content", "main", type, runtime, filters>>
Filters == <<<<"platformId", "p">>, <<"region", "r">>, <<"country", "c">>, <<"other", "o">>>>

OneHead == <<AName, AnIcon, Content("application", "html", <<>>)>>
Heads ==
    {<<2, <<AName, Content(type, "html", filters)>>>> :
            type \in {"application", "runtime", "x"}, filters \in {<<>>, Filters}}
    \cup {<<1, <<AName, Content(t, "html", <<>>), Content(u, "web", <<>>)>>>> :
            t \in {"application", "runtime"}, u \in {"application", "runtime"}}
    \cup {<<2, <<AName, AnIcon, <<"icon", "/abs", "png">>, Content("application", "", <<>>)>>>>,
          <<2, <<AName, AnIcon, AnIcon, Content("application", "html", <<>>)>>>>,
          <<2, <<<<"name", "bad id", "1.0", "t">>, Content("application", "html", <<>>)>>>>,
          <<1, <<AName, <<"content", "/abs", "application", "html", <<>>>>>>>>,
          <<2, <<AName, <<"content", "a<b", "application", "html", <<>>>>>>>>,
          <<2, <<AName, <<"icon", "a<b", "png">>, Content("application", "html", <<>>)>>>>,
          <<2, <<AName, Content("application", "html", <<<<"country", "a<b">>>>)>>>>,
          <<2, <<<<"name", "app", "a<b", "a<b">>, Content("application", "html", <<>>)>>>>,
          <<2, <<AName, <<"synopsis">>>>>>}

\* Capabilities with distinct names.
Distinct(set) == Cardinality({c[2] : c \in set}) = Cardinality(set)
Pairs == {set \in {{c, d} : c \in Capabilities, d \in Capabilities} : Distinct(set)}

\* The handlers that share a member of the meta data, taken three at a time.
Sharing ==
    {c \in Capabilities : c[2] \in {"storage", "private-storage", "suspend-mode", "hibernate-mode",
        "no-low-power-mode", "dial-app", "dial-id", "dial-origin-mandatory", "system-app"}}
Triples == {set \in {{c, d, e} : c \in Sharing, d \in Sharing, e \in Sharing} : Distinct(set)}

MCXmlDocuments ==
    {Document(2, OneHead, set, <<>>) : set \in Pairs \cup Triples}
    \cup {Document(h[1], h[2], {c}, <<<<"parentalControl", p>>>>) :
            h \in Heads, p \in {"true", "maybe"},
            c \in {Cap("system-app", AWord("")), Cap("catalogue-id", AWord("catalogue")),
                   Cap("no-low-power-mode", AWord(""))}}
    \cup {[Document(2, OneHead, {}, <<>>) EXCEPT !.valid = FALSE]}

\* Widgets with the two times an application can ask for.
Times == {Cap("start-timeout-sec", Num(7, "")), Cap("watchdog-timeout-sec", Num(7, ""))}
MCTimedDocuments == {Document(2, OneHead, set, <<>>) : set \in SUBSET Times}

-----------------------------------------------------------------------------

Required == [id |-> Str("app"), version |-> Str(<<<<"number", 1>>, <<"number", 0>>>>),
           packageType |-> Str("application"), entryPoint |-> Str("main")]

With(key, value) == [k \in {key} |-> value] @@ Required

\* The values of each configuration; the last of several is one that is refused.
Configurations ==
    [k \in {"application-lifecycle"} |->
        {Obj([supportedNonActiveStates |-> Arr(<<Str("suspended"), Str("hibernated")>>),
              startupTimeout |-> JInt(3), watchdogInterval |-> JInt(-1)]), Null}] @@
    [k \in {"low-power:terminate"} |-> {Bool(TRUE), Bool(FALSE), JInt(0)}] @@
    [k \in {"storage"} |->
        {Obj([maxLocalStorage |-> Str(Num(3, "k")), sharedStorageAppId |-> Str("other")]),
         Obj([maxLocalStorage |-> Str(AWord("big"))]), Obj([maxLocalStorage |-> JInt(1)])}] @@
    [k \in {"memory"} |-> {Obj([system |-> Str(Num(2, "g")), gpu |-> JInt(1)])}] @@
    [k \in {"network"} |->
        {Arr(<<Obj([port |-> JInt(p), type |-> Str("public"), protocol |-> Str("udp")]),
               Obj([port |-> JInt(80), type |-> Str("imported"), name |-> Str("http")]),
               Obj([port |-> JInt(81)])>>) : p \in {65536, 65537, -1}} \cup {Arr(<<Null>>)}] @@
    [k \in {"log-levels"} |-> {Arr(<<Str("debug"), Str("loud")>>)}] @@
    [k \in {"dial"} |-> {Obj([appNames |-> Arr(<<Str("a")>>), originHeaderRequired |-> Bool(TRUE)]),
                         Obj([corsDomains |-> Arr(<<Null>>)])}] @@
    [k \in {"icons"} |->
        {Arr(<<Obj([src |-> Str("icon.png"), sizes |-> Str(<<<<8, 8>>>>)]),
               Obj([src |-> Str("/abs"), type |-> JInt(1), sizes |-> Str(<<<<>>>>)])>>),
         Arr(<<Obj([src |-> JInt(1)])>>)}] @@
    [k \in {"input-handling"} |-> {Obj([keyCapture |-> Arr(<<Str("up"), Null>>)]), Obj(EmptyObject)}] @@
    [k \in {"window"} |-> {Obj([virtualDisplaySize |-> JInt(720)])}] @@
    [k \in {"display"} |-> {Obj([refreshRateHz |-> JInt(50), pictureMode |-> Str("cinema")])}] @@
    [k \in {"audio"} |-> {Obj([soundMode |-> Str("m"), loudnessAdjustment |-> JInt(-3)])}] @@
    [k \in {"overrides"} |-> {Obj([runtime |-> Str("r"), other |-> Null])}] @@
    [k \in {"runtime"} |->
        {Obj([supportedApplicationTypes |-> Arr(<<Obj([type |-> Str("html")]), Obj(EmptyObject)>>)]),
         Obj([supportedApplicationTypes |-> Null])}] @@
    [k \in {"vendor:own"} |-> {Str("anything")}]

ConfigurationPairs ==
    UNION {{[k \in {a, b} |-> IF k = a THEN v ELSE w] :
                v \in Configurations[a], w \in Configurations[b]} :
        <<a, b>> \in {p \in (DOMAIN Configurations) \X (DOMAIN Configurations) : p[1] # p[2]}}

Texts == {[i \in 1 .. n |-> Number(t[i])] : n \in 1 .. 4, t \in [1 .. 4 -> 0 .. 1]}
LimitTexts == {<<Number(1), Number(2)>>, <<Number(0), Number(1), Number(2)>>, <<Number(2)>>,
               <<Number(2), Number(0)>>, <<Number(0), Number(0), Number(0), Number(2)>>,
               <<Number(1), Empty>>, <<Number(1), Empty, Number(1)>>, <<Number(9)>>}
SomeTexts == {t \in Texts : Len(t) # 3} \cup LimitTexts

Constraints ==
    {<<"any">>, <<"junk">>}
    \cup {<<op, t>> : op \in Comparisons \cup {"~", "^", ""}, t \in Texts \cup LimitTexts}
    \cup {<<"range", t, u>> : t \in SomeTexts, u \in SomeTexts}

MCJsonDocuments ==
    {With("dependencies", Obj([d \in {"dep"} |-> Str(c)])) : c \in Constraints}
    \cup {With("configuration", Obj(c)) : c \in ConfigurationPairs}
    \cup {[k \in DOMAIN Required \ {f} |-> Required[k]] : f \in DOMAIN Required}
    \cup {[Required EXCEPT ![f] = v] : f \in DOMAIN Required, v \in {Null, JInt(1)}}
    \cup {With(f, v) : f \in {"name", "versionName", "packageSpecifier"}, v \in {Str("x"), Str("")}}
    \cup {With("entryArgs", Arr(<<Str("-v")>>)), With("permissions", Arr(<<Str("p"), Str("")>>)),
          With("permissions", Arr(<<Str("internet")>>)), With("dependencies", Null)}
    \cup {[Required EXCEPT !["packageType"] = Str(t)] : t \in {"runtime", "base", "widget"}}
=============================================================================
