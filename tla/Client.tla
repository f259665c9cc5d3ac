------------------------------- MODULE Client --------------------------------
(***************************************************************************)
(* The Qt client after its login: friends and their conversations          *)
(* (usermgr.cpp, userdata.h), the list of chats, the list of contacts, the *)
(* page of the current chat and the list of applications (chatdialog.cpp,  *)
(* contactuserlist.cpp, chatuserlist.cpp, chatpage.cpp,                    *)
(* applyfriendpage.cpp, searchlist.cpp).                                   *)
(*                                                                         *)
(* Everything runs in one event loop, so a slot is one step, with all the  *)
(* slots of one signal in the order of their connections.  A conversation  *)
(* exists twice: in FriendInfo and, copied when the chat item is made, in  *)
(* the UserInfo of the item; the page shows bubbles of its own.            *)
(*                                                                         *)
(* The server's messages come in any order.  A text may be from somebody   *)
(* who is no friend yet: the other side of a friendship is notified, and   *)
(* may write, before our own answer, ID_AUTH_FRIEND_RSP, is sent (the      *)
(* Defer of AuthFriendApply, LogicSystem.cpp:369).  The client then ends.  *)
(* Left out: what a search shows of a stranger, names, icons, the red      *)
(* points, which page is in front, and _b_loading (loading is one slot).   *)
(***************************************************************************)
EXTENDS Integers, Sequences, FiniteSets, SequencesExt

CONSTANTS
    Users,        \* uids of other people
    NoOne,        \* uid 0, that of the simulated entries
    PageSize,     \* CHAT_COUNT_PER_PAGE, 13 in the program
    FriendLists,  \* the friend lists a login may answer
    Applies,      \* ... and the applications that are open
    MaxMsgs, MaxBubbles,
    MaxAuths      \* bounds; the last on applications, consents and notices

ASSUME ClientAssumption ==
    /\ IsFiniteSet(Users) /\ NoOne \notin Users
    /\ PageSize \in Nat \ {0}
    /\ \A l \in FriendLists : l \in Seq(Users) /\ IsInjective(l)
    /\ Applies \subseteq SUBSET Users

VARIABLES
    running,        \* the application has not been told to quit
    friendList,     \* _friend_list, fixed by the login
    record,         \* _friend_map: FriendInfo::_chat_msgs by uid
    chatLoaded, contactLoaded,
    contacts,       \* how many contact entries a person has; NoOne, the simulated one
    item,           \* the chat items in the order of their creation
    first,          \* the one in row 0
    added,          \* _chat_items_added
    cur,            \* _cur_chat_uid
    page,           \* the item whose UserInfo ChatPage has
    shown,          \* its bubbles; 0 is an image, or an imitated message
    pending,        \* lists whose timer runs
    apply,          \* what has become of a person's application
    asked,          \* people whose application has been authorised
    msgs, bubbles, auths  \* bounded counters

friendVars == <<friendList, record, chatLoaded, contactLoaded, contacts>>
listVars == <<item, first, added>>
pageVars == <<cur, page, shown>>
applyVars == <<apply, asked>>
bounds == <<msgs, bubbles, auths>>
vars == <<running, friendVars, listVars, pageVars, applyVars, pending, bounds>>

Friends == DOMAIN record
IsFriend(u) == u \in Friends  \* CheckFriendById

(* The next page of the friend list, and how many are loaded after it.     *)
PageEnd(loaded) == IF loaded + PageSize > Len(friendList) THEN Len(friendList)
                   ELSE loaded + PageSize
PerPage(loaded) == SubSeq(friendList, loaded + 1, PageEnd(loaded))

(* The elements of a sequence that are in S, in their order: SelectSeq,    *)
(* with a set for the test, so that one lemma speaks of all its uses.      *)
Among(s, S) ==
    LET kept[n \in 0..Len(s)] ==
          IF n = 0 THEN <<>>
          ELSE IF s[n] \in S THEN Append(kept[n - 1], s[n]) ELSE kept[n - 1]
    IN  kept[Len(s)]

-----------------------------------------------------------------------------
(* The chat list: an item is [uid, msgs], with a copy of the conversation. *)
ChatItem(u, ms) == [uid |-> u, msgs |-> ms]

(* Those of a page of friends who have no item yet get one at the end.     *)
Fresh(us) == Among(us, {u \in Users : added[u] = 0})
AllAgain(us) ==  \* mutant: _chat_items_added is not looked at
    /\ item' = item \o [i \in 1..Len(us) |-> ChatItem(us[i], record[us[i]])]
    /\ added' = [u \in DOMAIN added |->
           IF \E i \in 1..Len(us) : us[i] = u
           THEN Len(item) + CHOOSE i \in 1..Len(us) : us[i] = u ELSE added[u]]
    /\ UNCHANGED first

AddItems(us) ==
    LET new == Fresh(us) IN
    /\ item' = item \o [i \in 1..Len(new) |-> ChatItem(new[i], record[new[i]])]
    /\ added' = [u \in DOMAIN added |->
           IF \E i \in 1..Len(new) : new[i] = u
           THEN Len(item) + CHOOSE i \in 1..Len(new) : new[i] = u ELSE added[u]]
    /\ UNCHANGED first

(* One item is put into row 0.                                             *)
InsertItem(u, ms) ==
    /\ item' = Append(item, ChatItem(u, ms))
    /\ added' = [added EXCEPT ![u] = Len(item) + 1]
    /\ first' = Len(item) + 1

(* SetUserInfo: the page shows the conversation of item i, one of its.     *)
ShowItem(i, its) ==
    /\ page' = i
    /\ shown' = its[i].msgs

(* SetSelectChatItem and SetSelectChatPage; uid 0 stands for row 0.        *)
Select(u, its, row0, at) ==
    LET i == IF u = NoOne THEN row0 ELSE at IN
    /\ cur' = its[i].uid
    /\ ShowItem(i, its)

-----------------------------------------------------------------------------
(* A turn of the wheel at the bottom of a list.  Both lists ask whether the*)
(* chats are loaded, and the timer that should end the pause between two   *)
(* pages ends the application (chatuserlist.cpp:57, contactuserlist.cpp    *)
(* :133, :144).                                                            *)
Wheel(list) ==
    /\ running
    /\ chatLoaded < Len(friendList)
    /\ list \notin pending /\ pending' = pending \cup {list}
    /\ UNCHANGED <<running, friendList, record, pageVars, applyVars, bounds>>

LoadMoreChatUser ==
    /\ Wheel("chats")
    /\ AddItems(PerPage(chatLoaded))
    /\ chatLoaded' = PageEnd(chatLoaded)
    /\ UNCHANGED <<contactLoaded, contacts>>

LoadMoreConUser ==
    /\ Wheel("contacts")
    /\ contacts' = [u \in DOMAIN contacts |->
           contacts[u] + IF \E i \in DOMAIN PerPage(contactLoaded) : PerPage(contactLoaded)[i] = u
                         THEN 1 ELSE 0]
    /\ contactLoaded' = PageEnd(contactLoaded)
    /\ UNCHANGED <<chatLoaded, listVars>>

Quit ==
    /\ running /\ pending # {} /\ running' = FALSE
    /\ UNCHANGED <<friendVars, listVars, pageVars, applyVars, pending, bounds>>

-----------------------------------------------------------------------------
(* A chat item is clicked.                                                 *)
KeepsCurUid(i) ==  \* mutant: _cur_chat_uid stays as it was
    /\ running /\ i \in DOMAIN item
    /\ ShowItem(i, item)
    /\ UNCHANGED <<running, friendVars, listVars, cur, applyVars, pending, bounds>>

SlotItemClicked(i) ==
    /\ running /\ i \in DOMAIN item
    /\ ShowItem(i, item)
    /\ cur' = item[i].uid
    /\ UNCHANGED <<running, friendVars, listVars, applyVars, pending, bounds>>

(* A text of n messages from u is notified.  For a person without an item, *)
(* the item copies the old messages and gets the new ones, before the      *)
(* record does.                                                            *)
NewMsgs(n) == [i \in 1..n |-> msgs + i]

RecordFirst(u, n) ==  \* mutant: the record grows before the item copies it
    LET i == added[u] IN
    /\ running /\ IsFriend(u)
    /\ msgs + n <= MaxMsgs /\ msgs' = msgs + n
    /\ record' = [record EXCEPT ![u] = @ \o NewMsgs(n)]
    /\ IF i # 0
       THEN /\ item' = [item EXCEPT ![i].msgs = @ \o NewMsgs(n)]
            /\ shown' = IF cur = u THEN shown \o NewMsgs(n) ELSE shown
            /\ UNCHANGED <<first, added>>
       ELSE /\ InsertItem(u, record[u] \o NewMsgs(n) \o NewMsgs(n))
            /\ UNCHANGED shown
    /\ UNCHANGED <<running, friendList, chatLoaded, contactLoaded, contacts, cur, page,
                   applyVars, pending, bubbles, auths>>

SlotTextChatMsg(u, n) ==
    LET i == added[u] IN
    /\ running /\ IsFriend(u)
    /\ msgs + n <= MaxMsgs /\ msgs' = msgs + n
    /\ record' = [record EXCEPT ![u] = @ \o NewMsgs(n)]
    /\ IF i # 0
       THEN /\ item' = [item EXCEPT ![i].msgs = @ \o NewMsgs(n)]
            /\ shown' = IF cur = u THEN shown \o NewMsgs(n) ELSE shown
            /\ UNCHANGED <<first, added>>
       ELSE /\ InsertItem(u, record[u] \o NewMsgs(n))
            /\ UNCHANGED shown
    /\ UNCHANGED <<running, friendList, chatLoaded, contactLoaded, contacts, cur, page,
                   applyVars, pending, bubbles, auths>>

(* ... and from somebody whose FriendInfo is not there, so that the record *)
(* of his new item is made from a null pointer.                            *)
StrangerTexts(u) ==
    /\ running /\ ~IsFriend(u) /\ added[u] = 0
    /\ running' = FALSE
    /\ UNCHANGED <<friendVars, listVars, pageVars, applyVars, pending, bounds>>

(* The send button: a text goes to the page's user, and is recorded (slot_ *)
(* append_send_chat_msg) for the current uid, nowhere if that is 0.        *)
SendText ==
    LET m == msgs + 1  i == added[cur]  records == cur # NoOne /\ i # 0 IN
    /\ running
    /\ m <= MaxMsgs /\ msgs' = m
    /\ item' = IF records THEN [item EXCEPT ![i].msgs = Append(@, m)] ELSE item
    /\ record' = IF records /\ IsFriend(cur) THEN [record EXCEPT ![cur] = Append(@, m)]
                 ELSE record
    /\ shown' = Append(shown, m)
    /\ UNCHANGED <<running, friendList, chatLoaded, contactLoaded, contacts, first, added, cur,
                   page, applyVars, pending, bubbles, auths>>

(* An image is only shown, and so is all that the receive button imitates. *)
ShowBubble ==
    /\ running
    /\ bubbles < MaxBubbles /\ bubbles' = bubbles + 1
    /\ shown' = Append(shown, 0)
    /\ UNCHANGED <<running, friendVars, listVars, cur, page, applyVars, pending, msgs, auths>>

-----------------------------------------------------------------------------
(* A new friend: the contact list's slot runs before the dialog's, which   *)
(* enters him; AddFriend starts an empty record.                           *)
AddContact(u) ==
    contacts' = IF IsFriend(u) THEN contacts ELSE [contacts EXCEPT ![u] = @ + 1]

DialogFirst(u) ==  \* mutant: the dialog's slot is connected before the list's
    /\ record' = [v \in Friends \cup {u} |-> IF IsFriend(v) THEN record[v] ELSE <<>>]
    /\ IF IsFriend(u) THEN UNCHANGED listVars ELSE InsertItem(u, <<>>)
    /\ UNCHANGED contacts

NotAskedAgain(u) ==  \* mutant: AddFriend without CheckFriendById
    /\ AddContact(u)
    /\ record' = [v \in Friends \cup {u} |-> IF v = u THEN <<>> ELSE record[v]]
    /\ InsertItem(u, <<>>)

Befriend(u) ==
    /\ AddContact(u)
    /\ record' = [v \in Friends \cup {u} |-> IF IsFriend(v) THEN record[v] ELSE <<>>]
    /\ IF IsFriend(u) THEN UNCHANGED listVars ELSE InsertItem(u, <<>>)

(* The peer has authorised our application.                                *)
SlotAddAuthFriend(u) ==
    /\ running
    /\ auths < MaxAuths /\ auths' = auths + 1
    /\ Befriend(u)
    /\ UNCHANGED <<running, friendList, chatLoaded, contactLoaded, pageVars, applyVars, pending,
                   msgs, bubbles>>

(* We authorise u's application: the button is there until the answer, and *)
(* longer for one that came after the login, which AddNewApply does not    *)
(* enter into _unauth_items.                                               *)
AuthFriend(u) ==
    /\ running
    /\ apply[u] \in {"loaded", "new"}
    /\ auths < MaxAuths /\ auths' = auths + 1
    /\ asked' = asked \cup {u}
    /\ UNCHANGED <<running, friendVars, listVars, pageVars, apply, pending, msgs, bubbles>>

SlotAuthRsp(u) ==
    /\ running
    /\ u \in asked /\ asked' = asked \ {u}
    /\ apply' = IF apply[u] = "loaded" THEN [apply EXCEPT ![u] = "added"] ELSE apply
    /\ Befriend(u)
    /\ UNCHANGED <<running, friendList, chatLoaded, contactLoaded, pageVars, pending, bounds>>

(* u applies; AlreadyApply drops a second application.                     *)
SlotApplyFriend(u) ==
    /\ running
    /\ auths < MaxAuths /\ auths' = auths + 1
    /\ apply[u] = "none" /\ apply' = [apply EXCEPT ![u] = "new"]
    /\ UNCHANGED <<running, friendVars, listVars, pageVars, asked, pending, msgs, bubbles>>

-----------------------------------------------------------------------------
(* To the chat of u, from a search that found a friend, or from the page of*)
(* a contact (a simulated one has uid 0).                                  *)
JumpTo(u) ==
    /\ IF added[u] # 0
       THEN Select(u, item, first, added[u]) /\ UNCHANGED listVars
       ELSE /\ InsertItem(u, <<>>)
            /\ Select(u, item', Len(item) + 1, Len(item) + 1)
    /\ UNCHANGED <<running, friendVars, applyVars, pending, bounds>>

SlotUserSearch(u) == running /\ IsFriend(u) /\ JumpTo(u)
SlotJumpFromInfoPage(u) == running /\ contacts[u] > 0 /\ JumpTo(u)

-----------------------------------------------------------------------------
(* The login's answer fills the lists, and the dialog is built: a page of  *)
(* contacts, a page of chats, simulated entries, and row 0 selected.       *)
Init ==
    /\ running = TRUE
    /\ friendList \in FriendLists
    /\ \E applied \in Applies : apply = [u \in Users |-> IF u \in applied THEN "loaded" ELSE "none"]
    /\ record = [u \in ToSet(friendList) |-> <<>>]
    /\ chatLoaded = PageEnd(0) /\ contactLoaded = PageEnd(0)
    /\ contacts = [u \in Users \cup {NoOne} |->
           IF u = NoOne \/ \E i \in 1..PageEnd(0) : friendList[i] = u THEN 1 ELSE 0]
    /\ item = Append([i \in 1..PageEnd(0) |-> ChatItem(friendList[i], <<>>)], ChatItem(NoOne, <<>>))
    /\ added = [u \in Users \cup {NoOne} |->
           IF \E i \in 1..PageEnd(0) : friendList[i] = u
           THEN CHOOSE i \in 1..PageEnd(0) : friendList[i] = u ELSE 0]
    /\ first = 1 /\ page = 1 /\ cur = item[1].uid /\ shown = <<>>
    /\ pending = {} /\ asked = {}
    /\ msgs = 0 /\ bubbles = 0 /\ auths = 0

Next ==
    \/ LoadMoreChatUser \/ LoadMoreConUser \/ Quit \/ SendText \/ ShowBubble
    \/ \E i \in DOMAIN item : SlotItemClicked(i)
    \/ \E u \in Users :
        \/ StrangerTexts(u) \/ \E n \in 0..2 : SlotTextChatMsg(u, n)
        \/ SlotAddAuthFriend(u) \/ AuthFriend(u) \/ SlotAuthRsp(u) \/ SlotApplyFriend(u)
        \/ SlotUserSearch(u)
    \/ \E u \in Users \cup {NoOne} : SlotJumpFromInfoPage(u)

Spec == Init /\ [][Next]_vars

-----------------------------------------------------------------------------
(* The messages among the bubbles of the page.                             *)
Recorded(bs) == Among(bs, Nat \ {0})

(* The two copies of a conversation, in the friend's record and in his chat*)
(* item, are the same; a friend without an item has said nothing yet       *)
(* (slot_text_chat_msg, slot_append_send_chat_msg, the items' constructors).*)
RecordsAgree ==
    \A u \in Friends :
        record[u] = IF added[u] = 0 THEN <<>> ELSE item[added[u]].msgs

(* No message of a conversation is forgotten or reordered: AddFriend, which*)
(* starts an empty record, must not run for a friend, although the answer  *)
(* to our own consent and the notice of his may both come.                 *)
RecordsKept ==
    [][\A u \in Friends : u \in DOMAIN record' /\ IsPrefix(record[u], record'[u])]_vars

(* The page belongs to the current uid, under which sent texts are stored, *)
(* and shows exactly his conversation, whatever order of clicks, jumps,    *)
(* notices and loads led to it.                                            *)
PageShowsCurrent ==
    /\ item[page].uid = cur
    /\ cur # NoOne => added[cur] = page /\ Recorded(shown) = item[page].msgs

(* Every friend stands in the contact list once, or is on one of the pages *)
(* still to be loaded, and nobody else does (the slots of both widgets ask *)
(* whether he is a friend, and the first one that runs must not make him   *)
(* one).                                                                   *)
ToLoad(u, loaded) == \E i \in (loaded + 1)..Len(friendList) : friendList[i] = u
ContactsOnce ==
    \A u \in Users :
        contacts[u] + (IF ToLoad(u, contactLoaded) THEN 1 ELSE 0)
            = IF IsFriend(u) THEN 1 ELSE 0

(* A person has at most one chat item, the one _chat_items_added knows, and*)
(* a friend has one or will get it with a page that is still to be loaded. *)
ItemsOnce ==
    \A u \in Users :
        /\ {i \in DOMAIN item : item[i].uid = u} = {added[u]} \ {0}
        /\ IsFriend(u) => added[u] # 0 \/ ToLoad(u, chatLoaded)
=============================================================================
