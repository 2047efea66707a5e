---------------------------- MODULE BrowserPush ----------------------------
(***************************************************************************)
(* Web Push in the browser: the handshake of state/push-subscription.ts,   *)
(* the notifications of routes/settings.tsx, the prompt of the dashboard   *)
(* (Banners), and the push events of the service worker                    *)
(* (sw/push-handler.ts), with the subscriptions the server holds.          *)
(*                                                                         *)
(* One tab, in which people sign in one after the other.  A push endpoint  *)
(* is a number: the browser never gets one twice, it stands for its keys   *)
(* and, since it is registered in one row, for the id of that row.  The    *)
(* endpoint 0 is another device's.                                         *)
(***************************************************************************)
EXTENDS Banners, Sequences, FiniteSets

CONSTANTS Calls,
          MaxEndpoints,     \* bound on the subscriptions the browser makes
          MaxClicks         \* bound on what the person does

ASSUME PushAssumption == {MaxEndpoints, MaxClicks} \subseteq Nat /\ None \notin Users \cup Calls

VARIABLES
    user,       \* whose session the tab holds
    set,        \* the notifications of the settings, while they are mounted
    call,       \* handlers under way
    sub,        \* pushManager: the subscription of this browser
    asker,      \* history: for whom each endpoint was made, or subscribed last by a
                \* handler of the session of the tab
    stored,     \* localStorage: the id of the subscription
    rows,       \* server: the account each endpoint is registered for
    left,       \* server: accounts with a session that nobody ended
    clicks      \* how many things the person did

pushVars == <<sub, asker, stored, rows>>
webVars == <<page, bannerVars, user, set, call, pushVars, left, clicks>>

Away == 0
MadeEndpoints == 1..Len(asker)
Rows == 0..MaxEndpoints

\* probe: what probePush waits for; subscribed is pushSubscribed.
Settings == [probe : {"key", "list", "sub", "done", "no"},
             subscribed : Perhaps(BOOLEAN), devices : SUBSET Rows]
Unprobed == [probe |-> "key", subscribed |-> None, devices |-> {}]

\* live: the page the handler was started on is still mounted.  token: the session
\* of its client is the tab's, one that was left, or one that has ended.
Stages == {"ask", "ready", "existing", "drop", "subscribe", "register", "answered",
           "refresh", "local", "list", "delete", "off", "choice"}
Call == [kind : {"enable", "prompt", "disable", "remove", "install"}, live : BOOLEAN,
         token : {"tab", "left", "ended"}, user : Users, at : Stages,
         ep : Perhaps(Rows), id : Perhaps(Rows)]

WebTypeOK ==
    /\ BannersTypeOK
    /\ page \in {"out", "dashboard", "settings"} /\ user \in Perhaps(Users)
    /\ set \in Settings
    /\ call \in [Calls -> Perhaps(Call)]
    /\ sub \in Perhaps(MadeEndpoints)
    /\ asker \in Seq(Users) /\ Len(asker) <= MaxEndpoints
    /\ stored \in Perhaps(MadeEndpoints)
    /\ rows \in [Rows -> Perhaps(Users)]
    /\ left \subseteq Users /\ clicks \in 0..MaxClicks

\* Another device of one of them is registered.
WebInit ==
    /\ page = "out" /\ user = None /\ BannersInit
    /\ set = Unprobed
    /\ call = [c \in Calls |-> None]
    /\ sub = None /\ asker = <<>> /\ stored = None
    /\ \E owner \in Users : rows = [e \in Rows |-> IF e = Away THEN owner ELSE None]
    /\ left = {} /\ clicks = 0

\* Accounts with a session at the server.
HasSession == left \cup ({user} \ {None})

Mine(u) == {e \in Rows : rows[e] = u}

\* The server accepts the token of a handler's client, and what it lists for it.
Accepted(c) == call[c].token # "ended"
Listed(c) == IF Accepted(c) THEN Mine(call[c].user) ELSE {}

Is(c, kinds, stage) == call[c] # None /\ call[c].kind \in kinds /\ call[c].at = stage
End(c) == call' = [call EXCEPT ![c] = None]
To(c, stage) == call' = [call EXCEPT ![c].at = stage]

\* No handler that this page started is under way: pushBusy, or busy of the prompt.
NoneUnderWay(kinds) == \A c \in Calls : call[c] # None => ~ (call[c].live /\ call[c].kind \in kinds)

Begin(c, kind, stage, id) ==
    /\ call[c] = None
    /\ call' = [call EXCEPT ![c] = [kind |-> kind, live |-> TRUE, token |-> "tab",
                                    user |-> user, at |-> stage, ep |-> None, id |-> id]]
    /\ UNCHANGED <<page, user, set, pushVars, left>>

-----------------------------------------------------------------------------
(* The pages.                                                              *)

Leave == [c \in Calls |-> IF call[c] = None THEN None ELSE [call[c] EXCEPT !.live = FALSE]]

\* The page of before is unmounted; the one of now starts anew.
Show(p) ==
    /\ page' = p
    /\ dash' = IF p = "dashboard" THEN Mounted ELSE dash
    /\ set' = IF p = "settings" THEN Unprobed ELSE set
    /\ refused' = IF p = "dashboard" THEN refused \ {"prompt"} ELSE refused
    /\ UNCHANGED <<device, kept, update>>

SignIn(u) ==
    /\ page = "out" /\ user' = u
    /\ Show("dashboard") /\ call' = Leave
    /\ UNCHANGED <<pushVars, left>>

Navigate(p) ==
    /\ user # None /\ p # page /\ Show(p) /\ call' = Leave
    /\ UNCHANGED <<user, pushVars, left>>

\* The session ends at the server, or the server is not reached and it is left.
\* Nothing is done about the subscription.
Logout ==
    /\ user # None /\ user' = None
    /\ \E ended \in BOOLEAN :
          /\ left' = IF ended THEN left ELSE left \cup {user}
          /\ call' = [c \in Calls |-> IF call[c] = None THEN None ELSE
                        [call[c] EXCEPT !.live = FALSE,
                            !.token = IF @ # "tab" THEN @ ELSE IF ended THEN "ended" ELSE "left"]]
    /\ Show("out")
    /\ UNCHANGED <<pushVars>>

\* SKIP_WAITING, and the page is loaded again on the new worker.  The key in memory
\* is gone, so that a page with a session goes to /login (_dashboard-layout.tsx:97):
\* who logs in there replaces the token, and the session is left.
UpdateReload ==
    /\ UpdateShown
    /\ update' = [needed |-> FALSE, dismissed |-> FALSE]
    /\ page' = "out" /\ user' = None /\ left' = HasSession
    /\ call' = [c \in Calls |-> None]
    /\ UNCHANGED <<device, dash, kept, refused, set, pushVars>>

-----------------------------------------------------------------------------
(* probePush of the settings.  Its effects are cancelled with the page.    *)

OnSettings(new) ==
    /\ On("settings") /\ set' = new
    /\ UNCHANGED <<page, bannerVars, user, call, pushVars, left>>

KeyProbed ==
    /\ set.probe = "key"
    /\ \E p \in IF device.supported THEN {"list", "no"} ELSE {"no"} :
          OnSettings([set EXCEPT !.probe = p])

ListProbed ==
    /\ set.probe = "list"
    /\ \E list \in {Mine(user), {}} : OnSettings([set EXCEPT !.probe = "sub", !.devices = list])

SubscriptionProbed ==
    /\ set.probe = "sub" /\ device.ready
    /\ OnSettings([set EXCEPT !.probe = "done", !.subscribed = (sub # None)])

\* The section of the settings: Enable, Disable and Remove.
PushSection == On("settings") /\ set.probe \in {"list", "sub", "done"}
PushIdle == NoneUnderWay({"enable", "disable", "remove"})

EnableClick(c) ==
    /\ PushSection /\ PushIdle /\ set.subscribed # TRUE /\ device.permission # "denied"
    /\ Begin(c, "enable", IF device.permission = "default" THEN "ask" ELSE "ready", None)
    /\ UNCHANGED bannerVars

DisableClick(c) ==
    /\ PushSection /\ PushIdle /\ set.subscribed = TRUE
    /\ Begin(c, "disable", "local", None)
    /\ UNCHANGED bannerVars

RemoveClick(c) ==
    /\ PushSection /\ PushIdle
    /\ \E e \in set.devices : Begin(c, "remove", "delete", e)
    /\ UNCHANGED bannerVars

\* Enable of the prompt; it always asks, and a decided permission answers at once.
PromptEnableClick(c) ==
    /\ PromptShown("default") /\ NoneUnderWay({"prompt"})
    /\ Begin(c, "prompt", "ask", None)
    /\ UNCHANGED bannerVars

\* Install: the deferred event may be prompted again before it is answered.
InstallClick(c) ==
    /\ InstallShown /\ dash.deferred
    /\ Begin(c, "install", "choice", None)
    /\ UNCHANGED bannerVars

InstallChosen(c) ==
    /\ Is(c, {"install"}, "choice")
    /\ \E accepted \in BOOLEAN : InstallAnswered(accepted, call[c].live)
    /\ End(c)
    /\ UNCHANGED <<page, user, set, pushVars, left>>

-----------------------------------------------------------------------------
(* subscribeToPush.                                                        *)

Subscribers == {"enable", "prompt"}

\* requestPermission: the person decides, or closes the question.
PermissionAsked(c) ==
    /\ Is(c, Subscribers, "ask")
    /\ \E p \in IF device.permission = "default" THEN {"default", "granted", "denied"}
                ELSE {device.permission} :
          /\ device' = [device EXCEPT !.permission = p]
          /\ IF p = "granted" THEN To(c, "ready") ELSE End(c)
    /\ UNCHANGED <<page, dash, kept, update, refused, user, set, pushVars, left>>

\* serviceWorker.ready and the server's public key.
KeyFetched(c) ==
    /\ Is(c, Subscribers, "ready") /\ device.ready /\ device.permission = "granted"
    /\ To(c, "existing")
    /\ UNCHANGED <<page, bannerVars, user, set, pushVars, left>>

\* getSubscription.
ExistingFound(c) ==
    /\ Is(c, Subscribers, "existing")
    /\ call' = [call EXCEPT ![c].ep = sub,
                            ![c].at = IF sub = None THEN "subscribe" ELSE "drop"]
    /\ UNCHANGED <<page, bannerVars, user, set, pushVars, left>>

\* unsubscribe() of a subscription that is not the browser's any more does nothing.
Unsubscribed(ep) == sub' = IF sub = ep THEN None ELSE sub

\* Mutant: a subscription with the same key is left as it is.
ExistingKept(c) ==
    /\ Is(c, Subscribers, "drop") /\ To(c, "subscribe")
    /\ UNCHANGED <<page, bannerVars, user, set, pushVars, left>>

ExistingDropped(c) ==
    /\ Is(c, Subscribers, "drop") /\ Unsubscribed(call[c].ep) /\ To(c, "subscribe")
    /\ UNCHANGED <<page, bannerVars, user, set, asker, stored, rows, left>>

\* pushManager.subscribe gives the subscription there is, for the same key.
Subscribed(c) ==
    /\ Is(c, Subscribers, "subscribe")
    /\ \/ /\ sub = None /\ Len(asker) < MaxEndpoints
          /\ asker' = Append(asker, call[c].user) /\ sub' = Len(asker')
       \/ /\ sub # None /\ UNCHANGED sub
          /\ asker' = [asker EXCEPT ![sub] = IF call[c].token = "tab" THEN user ELSE @]
    /\ call' = [call EXCEPT ![c].at = "register", ![c].ep = sub']
    /\ UNCHANGED <<page, bannerVars, user, set, stored, rows, left>>

\* POST /notifications/subscriptions, with the token of the handler's client.
Registered(c) ==
    /\ Is(c, Subscribers, "register") /\ Accepted(c)
    /\ rows' = [rows EXCEPT ![call[c].ep] = call[c].user]
    /\ To(c, "answered")
    /\ UNCHANGED <<page, bannerVars, user, set, sub, asker, stored, left>>

\* The id is remembered; the prompt closes, the settings list the devices.
Remembered(c) ==
    /\ Is(c, Subscribers, "answered")
    /\ stored' = call[c].ep
    /\ IF call[c].kind = "prompt" THEN End(c) ELSE To(c, "refresh")
    /\ dash' = IF call[c].kind = "prompt" /\ call[c].live
               THEN [dash EXCEPT !.dismissed = TRUE] ELSE dash
    /\ set' = IF call[c].kind = "enable" /\ call[c].live
              THEN [set EXCEPT !.subscribed = TRUE] ELSE set
    /\ UNCHANGED <<page, device, kept, update, refused, user, sub, asker, rows, left>>

\* refreshPushDevices; a failure leaves the list.
DevicesListed(c) ==
    /\ Is(c, {"enable", "disable"}, "refresh") /\ End(c)
    /\ \E list \in {Mine(call[c].user), set.devices} :
          set' = IF call[c].live THEN [set EXCEPT !.devices = list] ELSE set
    /\ UNCHANGED <<page, bannerVars, user, pushVars, left>>

\* Whatever throws ends the handler with a message.
HandlerFailed(c) ==
    /\ call[c] # None /\ call[c].at \notin {"ask", "choice", "local", "list", "refresh"}
    /\ call[c].at = "ready" => device.ready \/ device.permission # "granted"
    /\ call[c].at = "delete" => call[c].kind = "remove"
    /\ End(c)
    /\ UNCHANGED <<page, bannerVars, user, set, pushVars, left>>

-----------------------------------------------------------------------------
(* unsubscribeFromPush, and Remove in the list of devices.                 *)

\* The subscription there is, and the id that is remembered; without one the
\* devices are listed first.
LocalRead(c) ==
    /\ Is(c, {"disable"}, "local") /\ device.ready
    /\ call' = [call EXCEPT ![c].ep = sub, ![c].id = stored,
                            ![c].at = IF stored # None THEN "delete" ELSE "list"]
    /\ UNCHANGED <<page, bannerVars, user, set, pushVars, left>>

\* The only device is taken for this one; with any other number, or without an
\* answer, none is deleted.
OnlyDeviceDeleted(c) ==
    /\ Is(c, {"disable"}, "list")
    /\ \E list \in {Listed(c), {}} :
          \E gone \in IF Cardinality(list) = 1 THEN {list, {}} ELSE {{}} :
             rows' = [e \in Rows |-> IF e \in gone THEN None ELSE rows[e]]
    /\ To(c, "off")
    /\ UNCHANGED <<page, bannerVars, user, set, sub, asker, stored, left>>

\* DELETE of one's own row, or no row, or no answer: it is forgotten either way.
StoredDeleted(c) ==
    /\ Is(c, {"disable"}, "delete")
    /\ \E gone \in {{}} \cup {{e} : e \in Listed(c) \cap {call[c].id}} :
          rows' = [e \in Rows |-> IF e \in gone THEN None ELSE rows[e]]
    /\ stored' = None /\ To(c, "off")
    /\ UNCHANGED <<page, bannerVars, user, set, sub, asker, left>>

LocalDropped(c) ==
    /\ Is(c, {"disable"}, "off") /\ Unsubscribed(call[c].ep) /\ To(c, "refresh")
    /\ set' = IF call[c].live THEN [set EXCEPT !.subscribed = FALSE] ELSE set
    /\ UNCHANGED <<page, bannerVars, user, asker, stored, rows, left>>

\* Remove: the row goes, the local subscription stays whichever row it was.
DeviceRemoved(c) ==
    /\ Is(c, {"remove"}, "delete") /\ Accepted(c) /\ rows[call[c].id] = call[c].user
    /\ rows' = [rows EXCEPT ![call[c].id] = None]
    /\ set' = IF call[c].live THEN [set EXCEPT !.devices = @ \ {call[c].id}] ELSE set
    /\ End(c)
    /\ UNCHANGED <<page, bannerVars, user, sub, asker, stored, left>>

-----------------------------------------------------------------------------
(* The service worker.                                                     *)

\* notificationclick, on a notification of a push that came any time before: a
\* tab on the dashboard is told; one at "/" has no listener, and a new window has
\* no session and ends at /connect.  A payload that cannot be read names no document.
NotificationClick(d) ==
    /\ asker # <<>> /\ Highlighted(d)
    /\ UNCHANGED <<page, user, set, call, pushVars, left>>

\* pushsubscriptionchange: the pages are told, and no page listens for it.
Rotated ==
    /\ sub # None /\ sub' = None
    /\ UNCHANGED <<page, bannerVars, user, set, call, asker, stored, rows, left>>

-----------------------------------------------------------------------------
tab == <<page, user, set, call, pushVars, left>>

\* What the person does.
Person ==
    /\ clicks < MaxClicks /\ clicks' = clicks + 1
    /\ \/ \E u \in Users : SignIn(u)
       \/ \E p \in {"dashboard", "settings"} : Navigate(p)
       \/ Logout \/ UpdateReload
       \/ \E d \in Perhaps(Docs) : NotificationClick(d)
       \/ \E c \in Calls : \/ EnableClick(c) \/ DisableClick(c) \/ RemoveClick(c)
                           \/ PromptEnableClick(c) \/ InstallClick(c)
       \/ /\ NotNow \/ IosNotNow \/ NudgeDismissed \/ InstallDismissed \/ UpdateDismissed
             \/ PermissionChanged
          /\ UNCHANGED tab

\* The person, or nobody, answers the browser's own questions.
Dialog == \E c \in Calls : PermissionAsked(c) \/ InstallChosen(c)

\* The steps of a handler once the browser's questions are answered.
Handler(c) ==
    \/ KeyFetched(c) \/ ExistingFound(c) \/ ExistingDropped(c) \/ Subscribed(c)
    \/ Registered(c) \/ Remembered(c) \/ DevicesListed(c) \/ HandlerFailed(c)
    \/ LocalRead(c) \/ OnlyDeviceDeleted(c) \/ StoredDeleted(c) \/ LocalDropped(c)
    \/ DeviceRemoved(c)

Program ==
    /\ UNCHANGED clicks
    /\ \/ Dialog
       \/ \E c \in Calls : Handler(c)
       \/ KeyProbed \/ ListProbed \/ SubscriptionProbed
       \/ Rotated
       \/ /\ \/ PushUnavailable \/ PromptAppears(sub # None)
             \/ WeekPasses \/ NudgeProbed \/ BeforeInstall \/ AppInstalled
             \/ UpdateFound \/ HighlightEnds
          /\ UNCHANGED tab

WebNext == Person \/ Program

WebSpec == WebInit /\ [][WebNext]_webVars

-----------------------------------------------------------------------------
\* The live subscription is registered for the account it was subscribed for
\* last, or for one whose session the server still holds: when the people at a
\* browser subscribe one after the other, whatever handlers are still under way,
\* none whose session is over gets it back (push-subscription.ts:135).  A logout
\* alone changes nothing: until another subscribes it stays the former user's
\* (README, section 6).  The types with it.
LiveRowIsTheAskers ==
    /\ WebTypeOK
    /\ sub # None => rows[sub] \in {None, asker[sub]} \cup HasSession
=============================================================================
