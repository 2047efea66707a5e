------------------------------ MODULE Banners ------------------------------
(***************************************************************************)
(* The offers the web app makes over its pages: notifications              *)
(* (components/notification-prompt.tsx, state/notifications.ts), a passkey *)
(* and the highlighted row (routes/dashboard.tsx), installation            *)
(* (components/install-prompt.tsx) and an update of the service worker     *)
(* (components/sw-update-banner.tsx), with what the browser remembers of a *)
(* "not now": in sessionStorage for the tab, in localStorage beyond it.    *)
(* BrowserPush gives the tab its pages and carries out "Enable".           *)
(***************************************************************************)
EXTENDS Accounts

CONSTANTS Docs,
          Devices,              \* the devices to consider, members of Device
          SoftDismissLimit      \* SOFT_DISMISS_LIMIT

VARIABLES
    page,       \* "out" is every page without a session, "/" among them
    device,     \* what the browser says of itself
    dash,       \* the components of the dashboard, while it is mounted
    kept,       \* sessionStorage and localStorage
    update,     \* the update banner, over every page
    refused     \* history: the offers turned down on the page that made them, the
                \* notification prompt until the dashboard is mounted again

bannerVars == <<device, dash, kept, update, refused>>
Perhaps(S) == S \cup {None}

\* serviceWorker.ready settles only if a worker could be registered.
\* outdated: there is a newer worker to be found.
Device == [ios : BOOLEAN, standalone : BOOLEAN, supported : BOOLEAN, ready : BOOLEAN,
           authenticator : BOOLEAN, outdated : BOOLEAN,
           permission : {"default", "granted", "denied"}]

\* Safari on iOS has no push outside an installed app.
ASSUME BannersAssumption ==
    /\ SoftDismissLimit \in Nat \ {0}
    /\ None \notin Docs \cup {"show", "hide"}
    /\ Devices \subseteq {d \in Device : d.ios => (d.supported <=> d.standalone)}

Kinds == {"unsupported", "ios-needs-install", "default", "denied",
          "granted-not-subscribed", "granted-subscribed"}

\* ask is what the notification prompt found out, deferred the captured
\* beforeinstallprompt event.
Dash == [ask : Perhaps(Kinds \cup {"no-server"}), visible : BOOLEAN,
         dismissed : BOOLEAN, nudge : Perhaps({"show", "hide"}),
         deferred : BOOLEAN, iosHint : BOOLEAN, installNo : BOOLEAN,
         highlight : Perhaps(Docs)]

Kept == [soft : 0..SoftDismissLimit, asked : Perhaps({"recent", "old"}),
         nudge : BOOLEAN, install : BOOLEAN]

BannersTypeOK ==
    /\ device \in Device
    /\ dash \in Dash
    /\ kept \in Kept
    /\ update \in [needed : BOOLEAN, dismissed : BOOLEAN]
    /\ refused \subseteq {"nudge", "install", "prompt"}

\* The dashboard as it is mounted.
Mounted ==
    [ask |-> None, visible |-> FALSE, dismissed |-> FALSE,
     nudge |-> None, deferred |-> FALSE, iosHint |-> device.ios /\ ~ device.standalone,
     installNo |-> kept.install, highlight |-> None]

BannersInit ==
    /\ device \in Devices
    /\ kept = [soft |-> 0, asked |-> None, nudge |-> FALSE, install |-> FALSE]
    /\ update = [needed |-> FALSE, dismissed |-> FALSE]
    /\ refused = {}
    /\ dash = Mounted

On(p) == page = p

\* A step of the dashboard that is mounted; the effects of one that is not are
\* cancelled.
OnDash(new) ==
    /\ On("dashboard") /\ dash' = new
    /\ UNCHANGED <<device, kept, update, refused>>

-----------------------------------------------------------------------------
(* Notifications.                                                          *)

\* detectPermissionState, with the subscription there is.
PermissionState(subscribed) ==
    CASE ~ device.supported -> IF device.ios /\ ~ device.standalone
                               THEN "ios-needs-install" ELSE "unsupported"
      [] device.supported /\ device.permission # "granted" -> device.permission
      [] OTHER -> IF subscribed THEN "granted-subscribed" ELSE "granted-not-subscribed"

\* shouldShowSoftPrompt: past the limit, the moment in localStorage counts.
ShouldShowSoftPrompt(kind) ==
    /\ kind \in {"default", "ios-needs-install"}
    /\ kept.soft < SoftDismissLimit \/ kept.asked # "recent"

\* GET /notifications/public-key does not answer as it should.
PushUnavailable ==
    /\ dash.ask = None
    /\ OnDash([dash EXCEPT !.ask = "no-server"])

\* The server has push: the state is detected, and 1.5 s later a prompt that was
\* due then appears.
PromptAppears(subscribed) ==
    /\ dash.ask = None
    /\ device.supported /\ device.permission = "granted" => device.ready
    /\ OnDash([dash EXCEPT !.ask = PermissionState(subscribed),
                           !.visible = ShouldShowSoftPrompt(PermissionState(subscribed))])

\* What is rendered: shouldShowSoftPrompt hides every other state, so that the
\* branches for "denied" and "granted-not-subscribed" are never reached.
PromptShown(kind) ==
    /\ On("dashboard") /\ dash.ask = kind /\ dash.visible
    /\ ~ dash.dismissed /\ ShouldShowSoftPrompt(kind)

Counted(k) == [k EXCEPT !.soft = IF @ < SoftDismissLimit THEN @ + 1 ELSE @]

PromptDismissed ==
    /\ dash' = [dash EXCEPT !.dismissed = TRUE] /\ refused' = refused \cup {"prompt"}
    /\ UNCHANGED <<device, update>>

\* The soft dismissal: its moment goes to sessionStorage, where nobody reads it.
NotNow ==
    /\ PromptShown("default")
    /\ kept' = Counted(kept)
    /\ PromptDismissed

\* Mutant: the hint of iOS is only dismissed softly too.
IosNotNowSoft ==
    /\ PromptShown("ios-needs-install")
    /\ kept' = Counted(kept)
    /\ PromptDismissed

\* The hint of iOS: recordSoftDismissal and recordHardDismissal.
IosNotNow ==
    /\ PromptShown("ios-needs-install")
    /\ kept' = [Counted(kept) EXCEPT !.asked = "recent"]
    /\ PromptDismissed

\* SOFT_DISMISS_BACKOFF_MS go by.
WeekPasses ==
    /\ kept.asked = "recent" /\ kept' = [kept EXCEPT !.asked = "old"]
    /\ UNCHANGED <<device, dash, update, refused>>

\* The person changes the permission in the browser's settings.
PermissionChanged ==
    /\ device.supported
    /\ \E p \in {"default", "granted", "denied"} \ {device.permission} :
          device' = [device EXCEPT !.permission = p]
    /\ UNCHANGED <<dash, kept, update, refused>>

-----------------------------------------------------------------------------
(* A passkey, installation, the update and the highlighted row.            *)

\* Whether the account has passkeys is the server's, and it may fail to say.
NudgeProbed ==
    /\ dash.nudge = None
    /\ \E n \in IF device.authenticator /\ ~ kept.nudge THEN {"show", "hide"} ELSE {"hide"} :
          OnDash([dash EXCEPT !.nudge = n])

NudgeDismissed ==
    /\ On("dashboard") /\ dash.nudge = "show"
    /\ dash' = [dash EXCEPT !.nudge = "hide"] /\ refused' = refused \cup {"nudge"}
    /\ kept' = [kept EXCEPT !.nudge = TRUE]
    /\ UNCHANGED <<device, update>>

InstallShown == On("dashboard") /\ ~ dash.installNo /\ (dash.deferred \/ dash.iosHint)

\* beforeinstallprompt: an event of Chromium, heard while the dashboard is mounted.
BeforeInstall ==
    /\ ~ device.ios /\ ~ device.standalone /\ ~ dash.deferred
    /\ OnDash([dash EXCEPT !.deferred = TRUE])

\* The browser's own dialog is answered; whether the page is still there or not.
InstallAnswered(accepted, mounted) ==
    /\ dash' = IF mounted
               THEN [dash EXCEPT !.deferred = FALSE, !.installNo = @ \/ ~ accepted] ELSE dash
    /\ kept' = [kept EXCEPT !.install = @ \/ ~ accepted]
    /\ refused' = IF accepted \/ ~ mounted THEN refused ELSE refused \cup {"install"}
    /\ UNCHANGED <<device, update>>

AppInstalled == OnDash([dash EXCEPT !.deferred = FALSE, !.iosHint = FALSE])

InstallDismissed ==
    /\ InstallShown
    /\ dash' = [dash EXCEPT !.installNo = TRUE] /\ kept' = [kept EXCEPT !.install = TRUE]
    /\ refused' = refused \cup {"install"}
    /\ UNCHANGED <<device, update>>

\* useRegisterSW finds another worker waiting.
UpdateFound ==
    /\ device.ready /\ device.outdated /\ ~ update.needed
    /\ update' = [update EXCEPT !.needed = TRUE]
    /\ UNCHANGED <<device, dash, kept, refused>>

UpdateShown == update.needed /\ ~ update.dismissed

UpdateDismissed ==
    /\ UpdateShown /\ update' = [needed |-> FALSE, dismissed |-> TRUE]
    /\ UNCHANGED <<device, dash, kept, refused>>

\* A highlight-doc message, if the dashboard is mounted and names a document.
Highlighted(d) ==
    /\ dash' = IF On("dashboard") /\ d # None THEN [dash EXCEPT !.highlight = d] ELSE dash
    /\ UNCHANGED <<device, kept, update, refused>>

\* 2 s after its row was there.
HighlightEnds == dash.highlight # None /\ OnDash([dash EXCEPT !.highlight = None])

-----------------------------------------------------------------------------
\* How long each refusal lasts.  The passkey nudge and the installation are not
\* offered again in the session, on any dashboard that is mounted later and
\* whatever was under way (install-prompt.tsx:92, dashboard.tsx:119).  The hint of
\* iOS, once turned down as often as the limit says, is not shown before the
\* backoff is over (notifications.ts:84).  The prompt for notifications is only
\* known to stay away from the dashboard it was turned down on: the next one that
\* is mounted in the session shows it again, and past the limit too, for only
\* the hint of iOS writes the moment the backoff is counted from.  That is less
\* than notification-prompt.tsx:8-10 and notifications.ts:84-87 say.
RefusalLasts ==
    On("dashboard") =>
        /\ "nudge" \in refused => dash.nudge # "show"
        /\ "install" \in refused => ~ InstallShown
        /\ "prompt" \in refused => \A kind \in Kinds : ~ PromptShown(kind)
        /\ PromptShown("ios-needs-install") =>
              kept.soft < SoftDismissLimit \/ kept.asked = "old"
=============================================================================
