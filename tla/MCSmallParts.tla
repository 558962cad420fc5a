---------------------------- MODULE MCSmallParts ----------------------------
(* Instances of the parts of SmallParts.  The requests of a load lie on      *)
(* both sides of its paint, some within the rounding, and one is given twice. *)
EXTENDS SmallParts

Rec(traced, uuid, stamp, events) ==
  [page |-> traced, uuid |-> uuid, stamp |-> stamp, events |-> events,
   part |-> NotSplit, create |-> 0]
\* One is cut by its events and one by its records; of one, a part is too large
\* in spite of that; one is too large as it is; one is small.
MCPayloads ==
  {<<Rec(FALSE, 1, 1, <<1, 2, 4>>)>>,
   <<Rec(FALSE, 1, 2, <<3, 5>>), Rec(TRUE, 1, 2, <<>>)>>,
   <<Rec(FALSE, 2, 1, <<6>>), Rec(FALSE, 2, 3, <<7>>)>>,
   <<Rec(FALSE, 1, 3, <<2, 8>>), Rec(TRUE, 2, 1, <<>>)>>,
   <<Rec(TRUE, 1, 1, <<>>), Rec(TRUE, 1, 3, <<>>)>>}
MCSizes  == <<5, 2, 4, 2, 3, 9, 1, 3>>
MCPacked == <<3, 1, 2, 1, 1, 5, 1, 3>>

Kind(uuid, type, data, status, stamp) ==
  [uuid |-> uuid, session |-> uuid, type |-> type, data |-> data,
   status |-> status, stamp |-> stamp, fingerprint |-> status]
MCKinds ==
  {Kind(1, <<"page", "view">>, <<"x">>, 200, 2),
   Kind(2, <<"track", "event">>, <<"y", "x">>, 404, 1)}
Ask(view) ==
  [view |-> view, uuid |-> 0, session |-> 0, type |-> <<>>, data |-> <<>>,
   status |-> 0, fingerprint |-> 0, from |-> 0, to |-> 0, stampFrom |-> NotGiven,
   stampTo |-> NotGiven]
MCQueries ==
  {[Ask("logs") EXCEPT !.type = <<"view">>, !.from = 2, !.to = 4],
   [Ask("logs") EXCEPT !.from = 2], [Ask("errors") EXCEPT !.fingerprint = 404],
   [Ask("devices") EXCEPT !.uuid = 1], Ask("sessions"),
   [Ask("networks") EXCEPT !.status = 200, !.data = <<"x">>, !.stampFrom = 2, !.stampTo = 2],
   [Ask("networks") EXCEPT !.stampFrom = 1, !.stampTo = 0]}

Given(is, name, message, circular) ==
  [is |-> is, name |-> name, message |-> message, circular |-> circular]
MCPhrases == OwnPhrases \cup {"TypeError", "text"}
MCReasons ==
  {Given("Error", "TypeError", "", TRUE), Given("string", "", "text", FALSE),
   Given("null", "", "", FALSE), Given("object", "", "", TRUE),
   Given("Error", "", "text", FALSE), Given("string", "", "", FALSE)}
MCArguments ==
  LET Line == Given("string", "", "text", FALSE)
      Data == Given("object", "", "", TRUE)
  IN  {<<>>, <<Line, Data>>, <<Data, Given("Error", "TypeError", "", TRUE)>>, <<Data, Line>>,
       <<Given("Error", "", "text", FALSE), Given("Error", "TypeError", "", TRUE)>>}

Entry(type, path, tail, start, duration, end, request) ==
  [type |-> type, url |-> [path |-> path, query |-> tail], start |-> start,
   duration |-> duration, end |-> end, request |-> request]
MCEntries ==
  <<Entry("img", "a", "1", 29990, 20, 30010, 29995), Entry("img", "b", "", 30004, 0, 30004, 0),
    Entry("link", "a", "", 30002, Absent, Absent, 30003), Entry("img", "a", "1", 29990, 20, 30010, 29995),
    Entry("script", "d", "", 20, 40, 60, 30), Entry("img", "a", "2", 30600, 10, 30610, 30605)>>
MCLoads ==
  [fcp : {9999, 29999, 30003}, lcp : {60000}, entries : {MCEntries}]
  \cup {[fcp |-> 50000, lcp |-> 60000, entries |-> <<>>],
        [fcp |-> 29999, lcp |-> 30500, entries |-> MCEntries],
        [fcp |-> 29999, lcp |-> Absent, entries |-> MCEntries],
        [fcp |-> Absent, lcp |-> 30500, entries |-> MCEntries]}

Field(word, value) == [word |-> word, value |-> value, build |-> FALSE]
Word(word) == Field(word, "")
Prod(name, version) == [name |-> name, version |-> version]
Agent(fields, products) == [fields |-> fields, products |-> products]
Truly(os, kind, model, browser) == [os |-> os, kind |-> kind, model |-> model, browser |-> browser]
Old == [kind |-> "phone", model |-> "old", os |-> "ios", ratio |-> Undefined, version |-> "7"]
New == [kind |-> "pad", model |-> "new", os |-> "android", ratio |-> "3", version |-> "8", located |-> "yes"]
Device(is, ua, touch, modern, turns, w, h) ==
  [mp |-> FALSE, is |-> is, ua |-> ua, touch |-> touch, modern |-> modern, turns |-> turns,
   bigInt |-> modern, darkmode |-> IF modern THEN "absent" ELSE "false",
   width |-> w, height |-> h, old |-> Old, host |-> New]
IPhone == <<Word("iPhone"), Field("like Mac OS X", "15.0")>>
MacOS == <<Word("Macintosh"), Field("Mac OS X", "10.15.7")>>
Win10 == <<Field("Windows NT", "10.0"), Field("Win", "64"), Word("x64")>>
Chrome == <<Prod("Chrome", "120"), Prod("Safari", "537")>>
Safari == <<Prod("Version", "15"), Prod("Mobile", "15E148"), Prod("Safari", "604")>>
MCDevices ==
  {Device(Truly("ios", "phone", "iPhone", "safari"), Agent(IPhone, Safari), TRUE, m, TRUE, 3, 8) : m \in BOOLEAN}
  \cup {Device(Truly("ios", "phone", "iPhone", "chrome"),
           Agent(IPhone, <<Prod("CriOS", "120"), Prod("Safari", "604")>>), TRUE, TRUE, TRUE, 3, 8),
    Device(Truly("ios", "pad", "iPad", "safari"), Agent(MacOS, Safari), TRUE, TRUE, TRUE, 7, 9),
    Device(Truly("android", "phone", "SM-G975F", "chrome"),
           Agent(<<Word("Linux"), Field("Android", "10"), [Word("SM-G975F") EXCEPT !.build = TRUE], Word("wv")>>,
                 <<Prod("Version", "4")>> \o Chrome), TRUE, TRUE, TRUE, 4, 8),
    Device(Truly("android", "phone", "Pixel 3", "chrome"),
           Agent(<<Word("Linux"), Word("U"), Field("Android", "9"), Word("language"), Word("Pixel 3")>>, Chrome), TRUE, FALSE, TRUE, 4, 8),
    Device(Truly("macos", "pc", "PC", "safari"), Agent(MacOS, Safari), FALSE, TRUE, FALSE, 9, 7),
    Device(Truly("windows", "pc", "PC", "chrome"), Agent(Win10, Chrome), FALSE, TRUE, FALSE, 9, 7),
    Device(Truly("windows", "pc", "PC", "edge"), Agent(Win10, Chrome \o <<Prod("Edg", "120")>>), TRUE, TRUE, FALSE, 9, 7),
    Device(Truly("windows", "pc", "PC", "edge"), Agent(<<Field("Windows NT", "10.0")>>, Chrome \o <<Prod("Edge", "18")>>), FALSE, TRUE, FALSE, 9, 7),
    Device(Truly("windows", "pc", "PC", "ie"), Agent(<<Word("compatible"), Field("MSIE", "9.0"), Field("Windows NT", "6.1"), Field("Win", "64")>>, <<>>), FALSE, FALSE, FALSE, 9, 7),
    Device(Truly("windows", "pc", "PC", "ie"), Agent(<<Field("Windows NT", "6.3"), Word("Trident"), Word("rv:11.0")>>, <<>>), FALSE, FALSE, FALSE, 9, 7),
    Device(Truly("linux", "pc", "PC", "firefox"), Agent(<<Word("X11"), Field("Linux", "x86_64")>>, <<Prod("Firefox", "79")>>), FALSE, TRUE, FALSE, 9, 7),
    Device(Truly("other", "unknown", Undefined, ""), Agent(<<>>, <<Prod("curl", "7")>>), FALSE, FALSE, FALSE, 9, 7),
    [Device(Truly("ios", "phone", "iPhone", ""), Agent(<<>>, <<>>), TRUE, TRUE, FALSE, 3, 8) EXCEPT !.mp = TRUE]}
Frame(inner, client, height) == [inner |-> inner, client |-> client, height |-> height]
MCFrames == {Frame(9, 9, 6), Frame(3, NotANumber, 8)}
MCInsets == {[top |-> 0, right |-> 0, bottom |-> 0, left |-> 0], [top |-> 1, right |-> 1, bottom |-> 1, left |-> 0]}
MCOffsets == {[top |-> 0, bottom |-> 0], [top |-> 2, bottom |-> 1]}
MCHostSupport == {{}, {"getDeviceInfo"}, {"getWindowInfo", "getAppBaseInfo", "getSystemSetting"}}

MCFiles == {[path |-> "main.ts", vendored |-> FALSE], [path |-> "main.ts", vendored |-> TRUE],
            [path |-> "main.js", vendored |-> FALSE], [path |-> "page.ts", vendored |-> FALSE]}
MCWishes == {[k \in {} |-> 1], [report |-> 1, maxRetry |-> Infinite, interval |-> 0],
  [report |-> 0, networkEnable |-> 1], [networkEnable |-> 1, networkLimit |-> Null, maxRetry |-> 0, error |-> 0],
  [report |-> 1, networkSuccess |-> 0, recordEnable |-> 1, maxRetry |-> 2, collect |-> 0, interval |-> 3]}

MCProfiles ==
  {[on |-> "ios", db |-> "x"], [on |-> "ios", db |-> "y"], [on |-> "other", db |-> "y"]}
MCUrls == <<1, 2, 3>>
=============================================================================
