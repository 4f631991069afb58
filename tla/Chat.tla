-------------------------------- MODULE Chat --------------------------------
(***************************************************************************)
(* What a listener gets to read: app/chat.py and app/api/routers/chat.py,   *)
(* which keep a message and then tell the room, and one page of a browser   *)
(* (wireChat and connect of app/static/app.js), which reads the history as  *)
(* it loads and again after a dropped socket.                              *)
(*                                                                         *)
(* The page takes the socket for open when the server has accepted it; the  *)
(* server subscribes to the room only after that (app/api/routers/ws.py),   *)
(* and the page does not wait for its READY.                               *)
(***************************************************************************)
EXTENDS Naturals, Sequences, SequencesExt

CONSTANTS
  Messages,       \* bound: what is said, in any order
  HISTORY_LIMIT

VARIABLES
  message,   \* how far each message's POST has come
  history,   \* the list in Redis, newest first
  page,      \* the socket as the page sees it
  server,    \* the socket as the server sees it
  again,     \* attempt > 0: the next open is a reconnect
  get,       \* the page's GET of the history: "asked", or what it was answered
  inbox,     \* sent on the socket, not yet shown
  shown,     \* what the page has appended
  \* bookkeeping
  missed     \* what the page has no way left to hear of

chatVars == <<message, history, page, server, again, get, inbox, shown, missed>>
socket == <<page, server, again>>
said == <<message, history>>

NoGet == {}
Answers == {<<"asked">>} \cup {<<"answer", ms>> : ms \in SUBSET Messages}

ChatTypeOK ==
  /\ message \in [Messages -> {"unsaid", "stored", "told"}]
  /\ Range(history) \subseteq Messages /\ Len(history) <= HISTORY_LIMIT
  /\ page \in {"closed", "open"} /\ server \in {"none", "accepted", "subscribed"}
  /\ again \in BOOLEAN
  /\ get \subseteq Answers
  /\ inbox \subseteq Messages /\ shown \subseteq Messages /\ missed \subseteq Messages

\* The page has loaded: its socket is on its way, and so is its first GET.
ChatInit ==
  /\ message = [m \in Messages |-> "unsaid"] /\ history = <<>>
  /\ page = "closed" /\ server = "none" /\ again = FALSE
  /\ get = {<<"asked">>} /\ inbox = {} /\ shown = {} /\ missed = {}

\* Whether a GET, now or as the page reconnects, will still read the history.
WillRead == <<"asked">> \in get \/ (page = "closed" /\ again)

Told(m) ==
  /\ inbox' = IF server = "subscribed" THEN inbox \cup {m} ELSE inbox
  /\ missed' = IF server = "subscribed" \/ WillRead THEN missed ELSE missed \cup {m}

-----------------------------------------------------------------------------
(***************************************************************************)
(* post.                                                                   *)
(***************************************************************************)
\* What a read of the list gives.
recent == Range(history)

Kept(m) == history' = SubSeq(<<m>> \o history, 1, IF Len(history) < HISTORY_LIMIT THEN Len(history) + 1 ELSE HISTORY_LIMIT)

\* Mistake: the room is told before the message is kept.
ToldFirst == <<"told", "stored">>
\* store, and then publish.
Order == <<"stored", "told">>

Does(m, what) ==
  \/ what = "stored" /\ Kept(m) /\ UNCHANGED <<inbox, missed>>
  \/ what = "told" /\ Told(m) /\ UNCHANGED history

Store(m) ==
  /\ message[m] = "unsaid"
  /\ Does(m, Order[1])
  /\ message' = [message EXCEPT ![m] = "stored"]
  /\ UNCHANGED <<socket, get, shown>>

Publish(m) ==
  /\ message[m] = "stored"
  /\ Does(m, Order[2])
  /\ message' = [message EXCEPT ![m] = "told"]
  /\ UNCHANGED <<socket, get, shown>>

-----------------------------------------------------------------------------
(***************************************************************************)
(* The page.                                                               *)
(***************************************************************************)
\* The handler accepts; then it subscribes, whatever the page does.
Accept ==
  /\ server = "none" /\ page = "closed"
  /\ server' = "accepted"
  /\ UNCHANGED <<said, page, again, get, inbox, shown, missed>>

Subscribe ==
  /\ server = "accepted"
  /\ server' = "subscribed"
  /\ UNCHANGED <<said, page, again, get, inbox, shown, missed>>

\* Mistake: a reconnect does not read the history again.
NeverReloads == FALSE
Reloads == again

\* onopen.
OnOpen ==
  /\ page = "closed" /\ server # "none"
  /\ page' = "open" /\ again' = FALSE
  /\ get' = IF Reloads THEN get \cup {<<"asked">>} ELSE get
  /\ UNCHANGED <<said, server, inbox, shown, missed>>

\* onmessage.
Show(m) ==
  /\ page = "open" /\ m \in inbox
  /\ inbox' = inbox \ {m} /\ shown' = shown \cup {m}
  /\ UNCHANGED <<said, socket, get, missed>>

\* The connection breaks, before or after it opened; what was sent on it is lost.
OnClose ==
  /\ page' = "closed" /\ server' = "none" /\ again' = TRUE
  /\ inbox' = {}
  /\ UNCHANGED <<said, get, shown, missed>>

\* history, and load's answer.
Read ==
  /\ <<"asked">> \in get
  /\ get' = (get \ {<<"asked">>}) \cup {<<"answer", recent>>}
  /\ UNCHANGED <<said, socket, inbox, shown, missed>>

Answered(ms) ==
  /\ <<"answer", ms>> \in get
  /\ get' = get \ {<<"answer", ms>>} /\ shown' = shown \cup ms
  /\ UNCHANGED <<said, socket, inbox, missed>>

\* "chat is the least important thing on the page": a GET that fails is not
\* repeated.  What is stored and was not shown will not be, unless a read follows.
GetFails ==
  /\ <<"asked">> \in get
  /\ get' = get \ {<<"asked">>}
  /\ missed' = IF page = "closed" /\ again THEN missed ELSE missed \cup (recent \ (shown \cup inbox))
  /\ UNCHANGED <<said, socket, inbox, shown>>

\* Redis is cleared.
Forget == history' = <<>> /\ UNCHANGED <<message, socket, get, inbox, shown, missed>>

ChatNext ==
  \/ \E m \in Messages : Store(m) \/ Publish(m) \/ Show(m)
  \/ Accept \/ Subscribe \/ OnOpen \/ OnClose
  \/ Read \/ GetFails \/ \E ms \in SUBSET Messages : Answered(ms)
  \/ Forget

ChatSpec == ChatInit /\ [][ChatNext]_chatVars

-----------------------------------------------------------------------------
\* "Reconnecting listeners refill from recent and are whole again" (chat.py):
\* once nothing is under way and the socket is open, the page has shown all that
\* the history holds.  What is said between a page's last read of the history
\* and its socket's subscription is the exception, and what a failed GET has
\* cost; a message that was told to a page with a read still to come never is.
PageIsWhole ==
  (page = "open" /\ server = "subscribed" /\ get = {} /\ inbox = {})
     => \A m \in recent : message[m] # "told" \/ m \in shown \cup missed
=============================================================================
