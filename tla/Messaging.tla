----------------------------- MODULE Messaging -----------------------------
(***************************************************************************)
(* The messages of one user, on the page he has open: the gateway that     *)
(* stores a message and announces it over his socket, the query cache and  *)
(* the thread on the screen that show it, the counters of unread messages  *)
(* and the calls that mark messages as read.                               *)
(*                                                                         *)
(* Other users are whoever sends the messages that are not his.  A message *)
(* is announced twice, to the room of its thread and to the user, and the  *)
(* page merges what the socket brings with answers to fetches that may     *)
(* have been under way before.  The page may be loaded anew at any time:   *)
(* it then knows nothing, over whatever has been written and read so far.  *)
(***************************************************************************)
EXTENDS Integers, Sequences, FiniteSets

CONSTANTS
  Thread,       \* engagements the user is a party to
  Page,         \* messages a fetch returns at most, 50 in the code
  MaxMessages,  \* bounds the messages sent
  MaxFaults     \* bounds the connections lost and the calls that fail

Nobody == "none"   \* no thread is open: activeEngagementId is null

ASSUME ChatConstantsOK ==
  /\ Page \in Nat \ {0} /\ {MaxMessages, MaxFaults} \subseteq Nat
  /\ Nobody \notin Thread

VARIABLES
  log,      \* messages in order of timestamp, and how far each is announced
  read,     \* message_reads of the user
  rooms,    \* threads whose room the socket is in
  inbox,    \* newMessage events on their way to the page
  view,     \* useEngagementStore.activeEngagementId
  shown,    \* MessageThread's localMessages
  entered,  \* threads useEngagementStore.unreadCounts has an entry of
  unread,   \* those of them whose entry is not zero
  query,    \* the cache of useMessages, per thread
  marking,  \* threads with a call under way to mark them as read
  faults,   \* how many connections were lost and calls failed
  crossed   \* history, before any fault: came while their thread was being fetched

server   == <<log, read, rooms>>
page     == <<view, shown, entered, unread, query>>
chatVars == <<log, read, rooms, inbox, view, shown, entered, unread, query,
              marking, faults, crossed>>

-----------------------------------------------------------------------------
Id == 1 .. MaxMessages

Unasked == [known |-> FALSE, data |-> {}, fresh |-> FALSE, call |-> "idle", answer |-> {}]
Query == [known : BOOLEAN, data : SUBSET Id, fresh : BOOLEAN,
          call : {"idle", "asked", "served"}, answer : SUBSET Id]

In(t)     == {i \in 1 .. Len(log) : log[i].thread = t}
Theirs(t) == {i \in In(t) : ~ log[i].mine}

(* The first messages of a thread: ascending by timestamp, take Page.      *)
FirstPage(t) == {i \in In(t) : Cardinality({j \in In(t) : j <= i}) <= Page}

(* TanStack Query: a query that is not fetching starts to; one that is,    *)
(* and has nothing yet, goes on; one that has data starts again.           *)
Fetched(q)   == [q EXCEPT !.call = "asked", !.answer = {}]
Mounted(q)   == IF q.call = "idle" THEN Fetched(q) ELSE q
Refetched(q) == IF q.call = "idle" \/ q.known THEN Fetched([q EXCEPT !.fresh = FALSE]) ELSE q
Outdated(q)  == [q EXCEPT !.fresh = FALSE]

-----------------------------------------------------------------------------
ChatInit ==
  /\ log = <<>> /\ read = {}
  /\ rooms = {}
  /\ inbox = <<>>
  /\ view = Nobody /\ shown = {} /\ entered = {} /\ unread = {}
  /\ query = [t \in Thread |-> Unasked]
  /\ marking = {} /\ faults = 0 /\ crossed = {}

-----------------------------------------------------------------------------
(* MessagesGateway: createMessage and newMessage to the room of the        *)
(* thread; then, after a read of its parties, to each but the sender.      *)
Store(t, mine) ==
  /\ Len(log) < MaxMessages
  /\ mine => t \in rooms \cup {view}
  /\ log' = Append(log, [thread |-> t, mine |-> mine, told |-> mine])
  /\ inbox' = IF t \in rooms THEN Append(inbox, Len(log) + 1) ELSE inbox
  /\ UNCHANGED <<read, rooms, page, marking, faults, crossed>>

TellParty(i) ==
  /\ ~ log[i].told
  /\ log' = [log EXCEPT ![i].told = TRUE]
  /\ inbox' = Append(inbox, i)
  /\ UNCHANGED <<read, rooms, page, marking, faults, crossed>>

(* markEngagementAsRead; its read and its insert are taken as one step.    *)
MarkRead(t) ==
  /\ t \in marking
  /\ read' = read \cup Theirs(t)
  /\ marking' = marking \ {t}
  /\ UNCHANGED <<log, rooms, inbox, page, faults, crossed>>

(* The same on another page of the user, and markAllAsRead.                *)
ReadElsewhere ==
  /\ \E threads \in {{t} : t \in Thread} \cup {Thread} :
       read' = read \cup UNION {Theirs(t) : t \in threads}
  /\ UNCHANGED <<log, rooms, inbox, page, marking, faults, crossed>>

-----------------------------------------------------------------------------
(* MessageThread opened on a thread, or switched to it: the effects RESET, *)
(* readConversation, joinRoom with the counter cleared, MERGE_FETCHED.     *)
(* What the cache has is fetched again once it is 30 seconds old.          *)
OpenOn(t)   == query[t].data
Joins(t)    == rooms' = rooms \cup {t}
SetActive(t) == /\ view' = t
                /\ entered' = entered \cup ({t} \ {Nobody})
                /\ unread' = unread \ {t}

Open(t) ==
  /\ view # t
  /\ SetActive(t) /\ Joins(t)
  /\ shown' = OpenOn(t)
  /\ marking' = marking \cup {t}
  /\ \/ query' = [query EXCEPT ![t] = Mounted(@)]
     \/ query[t].known /\ query[t].fresh /\ query' = query
  /\ UNCHANGED <<log, read, inbox, faults, crossed>>

Close ==
  /\ view # Nobody
  /\ SetActive(Nobody) /\ shown' = {}
  /\ UNCHANGED <<server, inbox, query, marking, faults, crossed>>

(* A thread not open for five minutes is dropped from the cache.           *)
Evict(t) ==
  /\ view # t /\ query[t].call = "idle"
  /\ query' = [query EXCEPT ![t] = Unasked]
  /\ UNCHANGED <<server, inbox, view, shown, entered, unread, marking, faults,
                 crossed>>

(* The page is loaded anew, or its user logs out and in again: the stores  *)
(* and the cache are empty, the old socket is gone, and calls under way    *)
(* may still be served.  Events missed before the new socket is connected  *)
(* are missed as in an outage: Reconnect.                                  *)
LoadPage ==
  /\ inbox' = <<>> /\ rooms' = {}
  /\ view' = Nobody /\ shown' = {} /\ entered' = {} /\ unread' = {}
  /\ query' = [t \in Thread |-> Unasked]
  /\ marking' \in SUBSET marking /\ crossed' = {}
  /\ UNCHANGED <<log, read, faults>>

ServeFetch(t) ==
  /\ query[t].call = "asked"
  /\ query' = [query EXCEPT ![t].call = "served", ![t].answer = FirstPage(t)]
  /\ UNCHANGED <<server, inbox, view, shown, entered, unread, marking, faults,
                 crossed>>

(* The answer replaces the cached one; the thread merges it.               *)
ShowOnly(t)  == query[t].answer
ShowMerge(t) == shown \cup query[t].answer

TakeAnswer(t) ==
  /\ query[t].call = "served"
  /\ query' = [query EXCEPT ![t] =
       [known |-> TRUE, data |-> @.answer, fresh |-> TRUE, call |-> "idle", answer |-> {}]]
  /\ shown' = IF view = t THEN ShowMerge(t) ELSE shown
  /\ UNCHANGED <<server, inbox, view, entered, unread, marking, faults, crossed>>

-----------------------------------------------------------------------------
(* newMessage: SocketProvider counts it and invalidates the query, unless  *)
(* it is the user's own; the thread that is open appends it and marks it.  *)
CacheKept(t, i)  == query
CacheAfter(t, i) ==
  IF log[i].mine THEN query
  ELSE [query EXCEPT ![t] = IF view = t THEN Refetched(@) ELSE Outdated(@)]

MarksNothing(t, i) == {}
Marks(t, i)        == {t} \cap (IF log[i].mine THEN {} ELSE {view})

Appended(t, i) == IF view = t THEN shown \cup {i} ELSE shown
Incremented(t, i) == unread \cup (IF log[i].mine THEN {} ELSE {t} \ {view})

Deliver ==
  /\ inbox # <<>>
  /\ inbox' = Tail(inbox)
  /\ LET i == Head(inbox)
         t == log[i].thread
     IN /\ shown' = Appended(t, i)
        /\ unread' = Incremented(t, i)
        /\ entered' = entered \cup unread'
        /\ query' = CacheAfter(t, i)
        /\ marking' = marking \cup Marks(t, i)
        /\ crossed' = crossed \cup
             {x \in {i} : faults = 0 /\ query[t].call # "idle" /\ (view # t \/ ~ query[t].known)}
  /\ UNCHANGED <<server, view, faults>>

-----------------------------------------------------------------------------
(* The connection breaks and is made again: events meanwhile are lost.     *)
(* socket.io reconnects to no thread's room but those joined meanwhile; a  *)
(* renewed access token makes a new socket, and the open thread joins.     *)
Reconnect ==
  /\ faults < MaxFaults
  /\ faults' = faults + 1 /\ crossed' = {}
  /\ inbox' = <<>>
  /\ rooms' \in {{view} \ {Nobody}} \cup SUBSET rooms
  /\ UNCHANGED <<log, read, page, marking>>

(* A fetch or a read call that fails is not repeated by anyone.            *)
FailFetch(t) ==
  /\ query[t].call # "idle" /\ faults < MaxFaults
  /\ query' = [query EXCEPT ![t].call = "idle", ![t].answer = {}]
  /\ faults' = faults + 1 /\ crossed' = {}
  /\ UNCHANGED <<server, inbox, view, shown, entered, unread, marking>>

FailMark(t) ==
  /\ t \in marking /\ faults < MaxFaults
  /\ marking' = marking \ {t}
  /\ faults' = faults + 1 /\ crossed' = {}
  /\ UNCHANGED <<server, inbox, page>>

-----------------------------------------------------------------------------
Announce == \E i \in 1 .. Len(log) : TellParty(i)
Answer   == \E t \in Thread : MarkRead(t) \/ ServeFetch(t) \/ TakeAnswer(t)

ChatNext ==
  \/ Announce \/ Answer \/ Deliver
  \/ \E t \in Thread : Store(t, TRUE) \/ Store(t, FALSE)
  \/ Close \/ LoadPage \/ Reconnect
  \/ \E t \in Thread : Open(t) \/ Evict(t) \/ FailFetch(t) \/ FailMark(t)
  \/ ReadElsewhere

ChatSpec == ChatInit /\ [][ChatNext]_chatVars

-----------------------------------------------------------------------------
(* Every variable holds a value of its type; what is on its way exists.    *)
ChatTypeOK ==
  /\ log \in Seq([thread : Thread, mine : BOOLEAN, told : BOOLEAN]) /\ Len(log) <= MaxMessages
  /\ read \subseteq 1 .. Len(log)
  /\ rooms \subseteq Thread
  /\ inbox \in Seq(1 .. Len(log))
  /\ view \in Thread \cup {Nobody} /\ shown \subseteq 1 .. Len(log)
  /\ unread \subseteq entered /\ entered \subseteq Thread /\ marking \subseteq Thread
  /\ query \in [Thread -> Query]
  /\ faults \in 0 .. MaxFaults /\ crossed \subseteq 1 .. Len(log)

(* As long as a thread stays open no message disappears from it: a fetch   *)
(* that was served before does not take away what the socket has brought.  *)
NothingVanishes == [][view' = view => shown \subseteq shown']_chatVars

(* An open thread shows messages of no other thread, whatever answers and  *)
(* events of others were under way when it was opened; and, with no fault  *)
(* and nothing under way, one that fits a page shows all that others wrote *)
(* in it, unless a message arrived while the thread, closed or opened for  *)
(* the first time, was being fetched.                                      *)
Quiet(t) == /\ faults = 0 /\ inbox = <<>> /\ query[t].call = "idle" /\ t \notin marking
            /\ \A i \in In(t) : log[i].told
OpenThreadIsComplete == \A t \in Thread : view = t =>
  /\ shown \subseteq In(t)
  /\ Quiet(t) /\ In(t) \subseteq FirstPage(t) => Theirs(t) \ crossed \subseteq shown

(* A closed thread whose count on the page is zero has no message that the *)
(* server counts as unread, with no fault and nothing under way: once the  *)
(* page has a count of its own MessageThread shows it and the server's no  *)
(* more (:528, :553).  Until then, so for all that was unread before the   *)
(* page was loaded, it shows the server's.                                 *)
ZeroMeansRead == \A t \in entered \ unread :
  view # t /\ Quiet(t) => Theirs(t) \subseteq read
=============================================================================
