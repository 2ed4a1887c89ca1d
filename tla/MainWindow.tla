----------------------------- MODULE MainWindow -----------------------------
(***************************************************************************)
(* The main window, lightweight mode, in which there is none, and the page *)
(* the window shows (module/lightweight.rs, utils/window_manager.rs,       *)
(* utils/resolve/window.rs), as on macOS; elsewhere the page never dies.   *)
(*                                                                         *)
(* Clicks, hotkeys and the idle timer are tasks that interleave with each  *)
(* other and with the event loop, which alone changes the window: what a   *)
(* task asks of it is posted and carried out later, in order.              *)
(***************************************************************************)
EXTENDS Naturals, Sequences

CONSTANTS
  Clicks,       \* tasks of what the user asks for
  IdleTimers,   \* tasks of setup_light_weight_timer that may live at once (bound)
  MaxClicks,    \* bound on what the user asks for
  MaxDeaths     \* bound on the deaths of the page's process

NoTimer == "none"

VARIABLES
  LIGHTWEIGHT_STATE,
  CANCEL_TX,             \* the timer the channel's sender belongs to
  WEBVIEW_NEEDS_RELOAD,
  windowTask,            \* each task's step, and whether it leaves lightweight mode
  posted,                \* what the event loop has been asked to do
  window,                \* "none", "hidden", "minimized", "shown"
  page,                  \* "none", "loading", "alive", "dead"
  due,                   \* what follows later: "focus", "timer", "terminated", "reload"
  listening,             \* the window's close and focus handlers are registered
  auto_light,            \* enable_auto_light_weight_mode
  clicks, deaths,
  forgotten,             \* building a window cleared the mark of its own page
  reloadFailed           \* the dead page was asked to load again and could not

windowVars == <<LIGHTWEIGHT_STATE, CANCEL_TX, WEBVIEW_NEEDS_RELOAD, windowTask, posted, window,
                page, due, listening, auto_light, clicks, deaths, forgotten, reloadFailed>>
lightVars == <<LIGHTWEIGHT_STATE, CANCEL_TX, listening, auto_light>>
shownVars == <<window, page, due, deaths, forgotten, reloadFailed>>

WindowTasks == Clicks \cup IdleTimers
Resting == [pc |-> "idle", leaving |-> FALSE]

WindowInit ==
  /\ LIGHTWEIGHT_STATE = "Normal" /\ CANCEL_TX = NoTimer /\ WEBVIEW_NEEDS_RELOAD = FALSE
  /\ windowTask = [t \in WindowTasks |-> Resting]
  /\ posted = <<>> /\ window = "shown" /\ page = "alive" /\ due = {}
  /\ auto_light \in BOOLEAN /\ listening = auto_light
  /\ clicks = 0 /\ deaths = 0 /\ forgotten = FALSE /\ reloadFailed = FALSE

\* A page is loaded anew; or it cannot be, and nobody asks again.
Loads == page' = "loading" /\ reloadFailed' = FALSE
Reloads == Loads \/ (UNCHANGED page /\ reloadFailed' = (reloadFailed \/ page = "dead"))

At(t, pc) == windowTask[t].pc = pc
Becomes(t, pc) == windowTask' = [windowTask EXCEPT ![t].pc = pc]
Ends(t) == windowTask' = [windowTask EXCEPT ![t] = Resting]
Post(message) == posted' = Append(posted, message)

-----------------------------------------------------------------------------
(* The idle timer                                                            *)

\* Dropping or using the sender ends its timer, unless that has already fired.
cancel_light_weight_timer(tasks) ==
  /\ CANCEL_TX' = NoTimer
  /\ windowTask' = [t \in WindowTasks |->
                      IF t = CANCEL_TX /\ tasks[t].pc = "armed" THEN Resting ELSE tasks[t]]

\* One timer at a time.
setup_light_weight_timer(tasks) ==
  LET free == {k \in IdleTimers : tasks[k].pc = "idle"}
  IN IF CANCEL_TX = NoTimer /\ free # {}
     THEN \E k \in free : CANCEL_TX' = k /\ windowTask' = [tasks EXCEPT ![k].pc = "armed"]
     ELSE windowTask' = tasks /\ UNCHANGED CANCEL_TX

\* The close handler leaves it to a task of its own.
StartTimer ==
  /\ "timer" \in due /\ due' = due \ {"timer"}
  /\ setup_light_weight_timer(windowTask)
  /\ UNCHANGED <<LIGHTWEIGHT_STATE, listening, auto_light, window, page, deaths, forgotten, reloadFailed,
                 WEBVIEW_NEEDS_RELOAD, posted, clicks>>

TimerFires(k) ==
  /\ At(k, "armed") /\ Becomes(k, "fired")
  /\ UNCHANGED <<lightVars, shownVars, WEBVIEW_NEEDS_RELOAD, posted, clicks>>

\* It empties the slot, whoever's sender is in it, and enters lightweight mode.
TimerExpired(k) ==
  /\ At(k, "fired")
  /\ cancel_light_weight_timer([windowTask EXCEPT ![k].pc = "enter"])
  /\ UNCHANGED <<LIGHTWEIGHT_STATE, listening, auto_light, shownVars, WEBVIEW_NEEDS_RELOAD, posted, clicks>>

-----------------------------------------------------------------------------
(* What the user asks for                                                    *)

\* Lightweight mode on and off, a click that opens the window, the hotkey that
\* opens or hides it, and macOS's reopening and Hide.
Click(t) ==
  /\ t \in Clicks /\ At(t, "idle") /\ clicks < MaxClicks /\ clicks' = clicks + 1
  /\ \E pc \in {"enter", "leave", "open", "dashboard", "reopen", "hide"} :
       windowTask' = [windowTask EXCEPT ![t] = [pc |-> pc, leaving |-> pc \in {"leave", "open"}]]
  /\ UNCHANGED <<lightVars, shownVars, WEBVIEW_NEEDS_RELOAD, posted>>

entry_lightweight_mode(t) ==
  /\ At(t, "enter")
  /\ IF LIGHTWEIGHT_STATE = "Normal"
     THEN LIGHTWEIGHT_STATE' = "In" /\ Becomes(t, "record")
     ELSE Ends(t) /\ UNCHANGED LIGHTWEIGHT_STATE
  /\ UNCHANGED <<CANCEL_TX, listening, auto_light, shownVars, WEBVIEW_NEEDS_RELOAD, posted, clicks>>

\* The state is stored a second time, and the window goes.
destroy_main_window(t) ==
  /\ At(t, "record") /\ LIGHTWEIGHT_STATE' = "In"
  /\ IF window = "none" THEN UNCHANGED posted ELSE Post("destroy")
  /\ cancel_light_weight_timer([windowTask EXCEPT ![t] = Resting])
  /\ UNCHANGED <<listening, auto_light, shownVars, WEBVIEW_NEEDS_RELOAD, clicks>>

\* A click that does not leave lightweight mode opens the window instead.
exit_lightweight_mode(t) ==
  /\ At(t, "leave") \/ At(t, "open")
  /\ IF LIGHTWEIGHT_STATE = "In"
     THEN LIGHTWEIGHT_STATE' = "Exiting" /\ Becomes(t, "exiting")
     ELSE /\ windowTask' = [windowTask EXCEPT ![t] = IF At(t, "open") THEN [pc |-> "show", leaving |-> FALSE]
                                                     ELSE Resting]
          /\ UNCHANGED LIGHTWEIGHT_STATE
  /\ UNCHANGED <<CANCEL_TX, listening, auto_light, shownVars, WEBVIEW_NEEDS_RELOAD, posted, clicks>>

Exiting(t) ==
  /\ At(t, "exiting") /\ LIGHTWEIGHT_STATE' = "Exiting" /\ Becomes(t, "show")
  /\ UNCHANGED <<CANCEL_TX, listening, auto_light, shownVars, WEBVIEW_NEEDS_RELOAD, posted, clicks>>

open_or_close_dashboard(t) ==
  /\ At(t, "dashboard")
  /\ windowTask' = [windowTask EXCEPT ![t] = IF LIGHTWEIGHT_STATE = "In" THEN [pc |-> "leave", leaving |-> TRUE]
                                             ELSE [pc |-> "toggle", leaving |-> FALSE]]
  /\ UNCHANGED <<lightVars, shownVars, WEBVIEW_NEEDS_RELOAD, posted, clicks>>

handle_reopen(t) ==
  /\ At(t, "reopen")
  /\ windowTask' = [windowTask EXCEPT ![t] = CASE LIGHTWEIGHT_STATE = "In" -> [pc |-> "leave", leaving |-> TRUE]
                                               [] LIGHTWEIGHT_STATE # "In" /\ window \in {"none", "hidden"} -> [pc |-> "show", leaving |-> FALSE]
                                               [] OTHER -> Resting]
  /\ UNCHANGED <<lightVars, shownVars, WEBVIEW_NEEDS_RELOAD, posted, clicks>>

\* Showing the window is over; leaving goes on.
After(t) == IF windowTask[t].leaving THEN Becomes(t, "listen") ELSE Ends(t)

\* The limiter may refuse; a window in front of the user is left alone.
show_main_window(t) ==
  /\ At(t, "show")
  /\ \/ After(t)
     \/ window = "none" /\ Becomes(t, "create")
     \/ window # "none" /\ Becomes(t, "activate")
  /\ UNCHANGED <<lightVars, shownVars, WEBVIEW_NEEDS_RELOAD, posted, clicks>>

toggle_main_window(t) ==
  /\ At(t, "toggle")
  /\ \/ Ends(t) /\ UNCHANGED posted
     \/ window = "none" /\ Becomes(t, "create") /\ UNCHANGED posted
     \/ window = "shown" /\ Ends(t) /\ Post("close")
     \/ window \in {"hidden", "minimized"} /\ Becomes(t, "activate") /\ UNCHANGED posted
  /\ UNCHANGED <<lightVars, shownVars, WEBVIEW_NEEDS_RELOAD, clicks>>

\* A page that died while nobody saw it is loaded again first, and shown when
\* it has been loaded; if it cannot be, it is shown directly.
activate_window(t) ==
  /\ At(t, "activate") /\ WEBVIEW_NEEDS_RELOAD' = FALSE
  /\ \/ /\ WEBVIEW_NEEDS_RELOAD
        /\ posted' = posted \o <<"reload">> \o IF window = "minimized" THEN <<"show">> ELSE <<>>
        /\ UNCHANGED reloadFailed
     \/ /\ Post("show")
        /\ reloadFailed' = (reloadFailed \/ (WEBVIEW_NEEDS_RELOAD /\ page = "dead"))
  /\ After(t)
  /\ UNCHANGED <<lightVars, window, page, due, deaths, forgotten, clicks>>

\* A window of that name must not exist yet; the new one stays hidden until its
\* page has been loaded.
build_new_window == window = "none" /\ window' = "hidden" /\ Loads

create_window(t) ==
  /\ At(t, "create")
  /\ \/ build_new_window /\ Becomes(t, "built")
     \/ After(t) /\ UNCHANGED <<window, page, reloadFailed>>
  /\ UNCHANGED <<lightVars, due, deaths, forgotten, WEBVIEW_NEEDS_RELOAD, posted, clicks>>

\* "A new page supersedes any reload marker left by the old window."
Built(t) ==
  /\ At(t, "built") /\ WEBVIEW_NEEDS_RELOAD' = FALSE /\ After(t)
  /\ forgotten' = (forgotten \/ (WEBVIEW_NEEDS_RELOAD /\ page = "dead"))
  /\ UNCHANGED <<lightVars, window, page, due, deaths, reloadFailed, posted, clicks>>

Left(t) ==
  /\ At(t, "listen")
  /\ listening' = (listening \/ (auto_light /\ window # "none"))
  /\ cancel_light_weight_timer([windowTask EXCEPT ![t] = Resting])
  /\ LIGHTWEIGHT_STATE' = "Normal"
  /\ UNCHANGED <<auto_light, shownVars, WEBVIEW_NEEDS_RELOAD, posted, clicks>>

hide(t) ==
  /\ At(t, "hide")
  /\ IF auto_light
     THEN setup_light_weight_timer([windowTask EXCEPT ![t] = Resting])
     ELSE Ends(t) /\ UNCHANGED CANCEL_TX
  /\ IF window = "shown" THEN Post("hide") ELSE UNCHANGED posted
  /\ UNCHANGED <<LIGHTWEIGHT_STATE, listening, auto_light, shownVars, WEBVIEW_NEEDS_RELOAD, clicks>>

\* The setting is committed with it; the listeners need the update timer's
\* initialization to succeed.
enable_auto_light_weight_mode ==
  /\ ~auto_light /\ auto_light' = TRUE
  /\ listening' \in {listening, listening \/ window # "none"}
  /\ UNCHANGED <<LIGHTWEIGHT_STATE, CANCEL_TX, windowTask, shownVars, WEBVIEW_NEEDS_RELOAD, posted, clicks>>

disable_auto_light_weight_mode ==
  /\ auto_light /\ auto_light' = FALSE /\ listening' = FALSE
  /\ cancel_light_weight_timer(windowTask)
  /\ UNCHANGED <<LIGHTWEIGHT_STATE, shownVars, WEBVIEW_NEEDS_RELOAD, posted, clicks>>

-----------------------------------------------------------------------------
(* The event loop                                                            *)

\* A close request hides the window, and is to start the idle timer.
handle_window_close ==
  /\ window' = "hidden" /\ UNCHANGED page
  /\ due' = (due \ {"focus"}) \cup (IF listening THEN {"timer"} ELSE {})

\* What comes to the front gains the focus, if it was not in front already.
ToFront ==
  /\ window' = "shown"
  /\ due' \in {due \cup {"focus"}} \cup (IF window = "shown" THEN {due} ELSE {})

\* Whether a window of the same name keeps the handlers is tauri's choice.
Destroyed ==
  /\ window' = "none" /\ page' = "none" /\ due' = due \cap {"timer"} /\ reloadFailed' = FALSE
  /\ listening' \in {FALSE, listening}

Handled ==
  /\ posted # <<>> /\ posted' = Tail(posted)
  /\ LET message == Head(posted)
     IN \/ window = "none" /\ UNCHANGED <<window, page, due, listening, reloadFailed>>
        \/ window # "none" /\ message = "destroy" /\ Destroyed
        \/ window # "none" /\ message = "reload" /\ Loads /\ UNCHANGED <<window, due, listening>>
        \/ /\ window # "none" /\ UNCHANGED <<listening, reloadFailed>>
           /\ \/ message = "close" /\ handle_window_close
              \/ message = "show" /\ ToFront /\ UNCHANGED page
              \/ message = "hide" /\ window' = "hidden" /\ due' = due \ {"focus"} /\ UNCHANGED page
  /\ UNCHANGED <<LIGHTWEIGHT_STATE, CANCEL_TX, windowTask, WEBVIEW_NEEDS_RELOAD, auto_light, clicks, deaths, forgotten>>

\* The user's own close, minimization and return, which no click of ours sees.
WindowButtons ==
  /\ clicks < MaxClicks /\ clicks' = clicks + 1
  /\ \/ window = "shown" /\ handle_window_close
     \/ window = "shown" /\ window' = "minimized" /\ due' = due \ {"focus"} /\ UNCHANGED page
     \/ window = "minimized" /\ ToFront /\ UNCHANGED page
  /\ UNCHANGED <<lightVars, WEBVIEW_NEEDS_RELOAD, windowTask, posted, deaths, forgotten, reloadFailed>>

\* "Consumes the shared marker for native unminimize paths that bypass
\* activate_window"; the focus handler ends the timer.
Mut_Focused ==
  /\ "focus" \in due /\ due' = due \ {"focus"}
  /\ UNCHANGED <<WEBVIEW_NEEDS_RELOAD, page>>
  /\ IF listening THEN cancel_light_weight_timer(windowTask) ELSE UNCHANGED <<CANCEL_TX, windowTask>>
  /\ UNCHANGED <<LIGHTWEIGHT_STATE, listening, auto_light, posted, window, clicks, deaths, forgotten, reloadFailed>>

Focused ==
  /\ "focus" \in due /\ due' = due \ {"focus"}
  /\ WEBVIEW_NEEDS_RELOAD' = FALSE
  /\ IF WEBVIEW_NEEDS_RELOAD THEN Reloads ELSE UNCHANGED <<page, reloadFailed>>
  /\ IF listening THEN cancel_light_weight_timer(windowTask) ELSE UNCHANGED <<CANCEL_TX, windowTask>>
  /\ UNCHANGED <<LIGHTWEIGHT_STATE, listening, auto_light, posted, window, clicks, deaths, forgotten>>

\* Every page that finished loading brings its window to the front; whether a
\* minimized one returns is the system's choice.
PageLoaded ==
  /\ page = "loading" /\ page' = "alive"
  /\ \/ ToFront
     \/ window = "minimized" /\ UNCHANGED <<window, due>>
  /\ UNCHANGED <<lightVars, WEBVIEW_NEEDS_RELOAD, windowTask, posted, clicks, deaths, forgotten, reloadFailed>>

PageDies ==
  /\ page \in {"loading", "alive"} /\ deaths < MaxDeaths
  /\ page' = "dead" /\ due' = due \cup {"terminated"} /\ deaths' = deaths + 1
  /\ UNCHANGED <<lightVars, WEBVIEW_NEEDS_RELOAD, windowTask, posted, window, clicks, forgotten, reloadFailed>>

on_web_content_process_terminated ==
  /\ "terminated" \in due
  /\ IF window = "shown"
     THEN due' = (due \ {"terminated"}) \cup {"reload"} /\ UNCHANGED WEBVIEW_NEEDS_RELOAD
     ELSE due' = due \ {"terminated"} /\ WEBVIEW_NEEDS_RELOAD' = TRUE
  /\ UNCHANGED <<lightVars, windowTask, posted, window, page, clicks, deaths, forgotten, reloadFailed>>

\* Once the page's subscriptions are cleared away.
Reloaded ==
  /\ "reload" \in due /\ due' = due \ {"reload"} /\ Reloads
  /\ UNCHANGED <<lightVars, WEBVIEW_NEEDS_RELOAD, windowTask, posted, window, clicks, deaths, forgotten>>

WindowNext ==
  \/ StartTimer \/ \E k \in IdleTimers : TimerFires(k) \/ TimerExpired(k)
  \/ \E t \in WindowTasks : \/ Click(t) \/ entry_lightweight_mode(t) \/ destroy_main_window(t)
                            \/ exit_lightweight_mode(t) \/ Exiting(t) \/ open_or_close_dashboard(t) \/ handle_reopen(t)
                            \/ show_main_window(t) \/ toggle_main_window(t)
                            \/ activate_window(t) \/ create_window(t) \/ Built(t) \/ Left(t) \/ hide(t)
  \/ enable_auto_light_weight_mode \/ disable_auto_light_weight_mode
  \/ Handled \/ WindowButtons \/ Focused \/ PageLoaded
  \/ PageDies \/ on_web_content_process_terminated \/ Reloaded

WindowSpec == WindowInit /\ [][WindowNext]_windowVars

-----------------------------------------------------------------------------
WindowSettled == posted = <<>> /\ due = {} /\ \A t \in WindowTasks : windowTask[t].pc \in {"idle", "armed"}

\* A page whose process was ended is never what the user is left looking at
\* (on_web_content_process_terminated, activate_window, reload_main_window_if_needed),
\* however the window was hidden, shown, replaced or minimized around it; save
\* for a page that dies while its window is still being built, and one that
\* cannot be loaded again, whose window is shown all the same.
NoDeadPage == WindowSettled /\ window = "shown" /\ ~forgotten /\ ~reloadFailed => page # "dead"
=============================================================================
