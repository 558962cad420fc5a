----------------------------- MODULE ClientParts ----------------------------
(***************************************************************************)
(* The parts that run with a user and come to their properties without the *)
(* records: how the SDK is set up in an application and under which device *)
(* and session it files, and, in the console, who is let in, for which     *)
(* application a window asks, the charts of the page on the first paints   *)
(* and the board of the projects.  They share nothing but the browser they *)
(* are in.                                                                 *)
(***************************************************************************)
EXTENDS SdkSetup, Identity, ConsoleAccess, FcpCharts, Portal

(* One SDK runs, with the options that were set (lib.ts, browser/index.ts), *)
(* and what it reports is filed under one device and one session for each   *)
(* load (utils.ts:115 and 143).                                             *)
ClientIsSetUp == SetupIsAsConfigured /\ RecordsAreFiled

(* A captcha is gone once a verdict was given on it, and the verdict is by  *)
(* where its piece was put, short of the ends of the slider; a window asks  *)
(* about the application it shows and lists its entries (auth.ts:29,        *)
(* captcha.vue:90, request.ts:33, useMenu.ts), no chart outlives the        *)
(* element or the analysis it draws (FcpOverview.vue), and no project that  *)
(* a search only hides the apps of is deleted for an empty one              *)
(* (EntryWrap.vue:40).                                                      *)
ConsoleIsSound == AccessIsSound /\ ChartsAreShown /\ OnlyEmptyOnesAreDeleted
=============================================================================
