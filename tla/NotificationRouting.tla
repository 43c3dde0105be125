------------------------- MODULE NotificationRouting -------------------------
(***************************************************************************)
(* From the fresh extrinsics and the events of a block to webhooks.  Every *)
(* item goes to at most one handler; the handlers send in the order of     *)
(* their registration, each one message for its group, and one that raises *)
(* does not stop the others.  Coldkey swaps go to the central channel and  *)
(* to the channels of the subnets that the signer owns: owners and         *)
(* webhooks are rows that others change while a block is dispatched.       *)
(***************************************************************************)
EXTENDS Integers, FiniteSets, Sequences

CONSTANTS
    Items,       \* [kind, wrapped, success, signer]; wrapped: inside Sudo.sudo
    MaxItems,    \* bound: items of a block
    Urls,
    UrlsOf,      \* UrlsOf[h]: enabled URLs in the environment variable of handler h
    Netuids, Signers,
    MaxEdits     \* bound: changes of owners and webhooks

\* Registration order of the extrinsic handlers, the catch-all last, and of the event
\* handlers, whose dispatch comes next.
Order == <<"admin_utils", "coldkey_swap", "dissolution", "registration", "sudo",
           "cleanup", "owner_change", "completed">>

Patterns == [admin |-> "admin_utils", swap |-> "coldkey_swap", dissolve |-> "dissolution",
             register |-> "registration", cleaned |-> "cleanup", crowned |-> "owner_change",
             added |-> "completed"]

VARIABLES
    owners,     \* owners[n]: the coldkey of the Subnet row's owner
    webhooks,   \* enabled SubnetWebhook rows
    edits,
    ownedBy,    \* <<netuid, coldkey>>: owners since the dispatch began
    items,      \* what the block dispatches
    turn,       \* the handler it is at; 0: no dispatch
    fanout,     \* <<netuid, item>> that the swap handler still has to route
    announced,  \* what its central channel has taken
    heard,      \* <<url, item>> posted to the URLs of handlers
    heardBy,    \* <<netuid, item>> posted to webhooks of subnets
    unheard,    \* items of groups that no URL took, or whose handler raised
    raised,     \* some handler raised
    total       \* what the dispatches return

db == <<owners, webhooks, edits, ownedBy>>
route == <<fanout, announced>>
result == <<heard, heardBy, unheard, raised, total>>
vars == <<db, items, turn, route, result>>

NotificationTypeOK ==
    /\ owners \in [Netuids -> Signers]
    /\ webhooks \subseteq Netuids \X Urls
    /\ ownedBy \subseteq Netuids \X Signers
    /\ items \subseteq Items
    /\ turn \in 0..Len(Order)
    /\ fanout \subseteq Netuids \X Items /\ announced \in 0..MaxItems
    /\ heard \subseteq Urls \X Items /\ heardBy \subseteq Netuids \X Items
    /\ unheard \subseteq Items
    /\ raised \in BOOLEAN /\ total \in 0..MaxItems

InitWith(owner) ==
    /\ owners = [n \in Netuids |-> owner]
    /\ webhooks = {}
    /\ edits = 0 /\ ownedBy = {}
    /\ items = {} /\ turn = 0
    /\ fanout = {} /\ announced = 0
    /\ heard = {} /\ heardBy = {} /\ unheard = {}
    /\ raised = FALSE /\ total = 0

Init == \E owner \in Signers : InitWith(owner)

-----------------------------------------------------------------------------
\* Faulty variant of HandlerOf: matches the call as it is, not the inner one.
HandlerOfOuter(e) ==
    IF e.wrapped \/ e.kind = "sudo" THEN "sudo"
    ELSE IF e.kind \in DOMAIN Patterns THEN Patterns[e.kind] ELSE "none"

\* The first handler with a matching pattern, a Sudo.sudo unwrapped; the catch-all for
\* other calls of Sudo.
HandlerOf(e) ==
    IF e.kind \in DOMAIN Patterns THEN Patterns[e.kind]
    ELSE IF e.wrapped \/ e.kind = "sudo" THEN "sudo" ELSE "none"

\* What notify() of handler h sends: the successful ones.
Group(h) == {e \in items : HandlerOf(e) = h /\ e.success}

\* At least one URL took the message.
Sent(ok, group) == IF ok = {} THEN 0 ELSE Cardinality(group)

Dispatch(block) ==
    /\ turn = 0 /\ block # {}
    /\ items' = block /\ turn' = 1
    /\ heard' = {} /\ heardBy' = {} /\ unheard' = {}
    /\ raised' = FALSE /\ total' = 0
    /\ ownedBy' = {<<n, owners[n]>> : n \in Netuids}
    /\ UNCHANGED <<owners, webhooks, edits, route>>

\* Faulty variant of AfterTurn: the dispatch does not end with the last handler.
AfterTurnOn == turn + 1

AfterTurn == IF turn = Len(Order) THEN 0 ELSE turn + 1

\* One message for the group, to each URL; those in ok take it.
NotifyChannel(ok) ==
    LET h == Order[turn] IN
    /\ turn # 0 /\ h # "coldkey_swap"
    /\ ok \subseteq UrlsOf[h]
    /\ heard' = heard \cup (ok \X Group(h))
    /\ unheard' = IF ok = {} THEN unheard \cup Group(h) ELSE unheard
    /\ total' = total + Sent(ok, Group(h))
    /\ turn' = AfterTurn
    /\ UNCHANGED <<db, items, route, heardBy, raised>>

\* resolve_coldkey_roles
OwnedSubnets(s) == {n \in Netuids : owners[n] = s}

Announced == Group("coldkey_swap") \subseteq unheard \cup {p[2] : p \in heard}

\* The signers' roles are looked up, a failing lookup counting as no roles, and all
\* swaps announced in the central channel.
AnnounceSwaps(ok, known) ==
    LET swaps == Group("coldkey_swap") IN
    /\ turn # 0 /\ Order[turn] = "coldkey_swap" /\ ~Announced
    /\ ok \subseteq UrlsOf["coldkey_swap"]
    /\ heard' = heard \cup (ok \X swaps)
    /\ unheard' = IF ok = {} THEN unheard \cup swaps ELSE unheard
    /\ announced' = Sent(ok, swaps)
    /\ fanout' = {p \in Netuids \X swaps : p[2].signer \in known /\ p[1] \in OwnedSubnets(p[2].signer)}
    /\ UNCHANGED <<db, items, turn, heardBy, raised, total>>

\* The swaps to be posted to the channel of subnet n.
Subnets(n) == {p[2] : p \in {q \in fanout : q[1] = n}}

\* One message per owned subnet, to the webhooks that it has at this moment.
PostToSubnet(n, ok) ==
    /\ Subnets(n) # {}
    /\ ok \subseteq {u \in Urls : <<n, u>> \in webhooks}
    /\ heardBy' = heardBy \cup (IF ok = {} THEN {} ELSE {n} \X Subnets(n))
    /\ fanout' = {p \in fanout : p[1] # n}
    /\ UNCHANGED <<db, items, turn, announced, heard, unheard, raised, total>>

SwapsDone ==
    /\ turn # 0 /\ Order[turn] = "coldkey_swap" /\ fanout = {} /\ Announced
    /\ total' = total + announced
    /\ announced' = 0
    /\ turn' = AfterTurn
    /\ UNCHANGED <<db, items, fanout, heard, heardBy, unheard, raised>>

\* Faulty variant of TurnAfterRaise: the exception leaves the dispatch.
TurnOut == 0

TurnAfterRaise == AfterTurn

\* notify() raises, at the latest before its last message: what it has sent stays
\* sent, but is not counted.
HandlerRaises ==
    /\ turn # 0 /\ Group(Order[turn]) # {}
    /\ Order[turn] = "coldkey_swap" => ~Announced \/ fanout # {}
    /\ unheard' = unheard \cup {e \in Group(Order[turn]) : \A u \in Urls : <<u, e>> \notin heard}
    /\ raised' = TRUE
    /\ fanout' = {} /\ announced' = 0
    /\ turn' = TurnAfterRaise
    /\ UNCHANGED <<db, items, heard, heardBy, total>>

-----------------------------------------------------------------------------
\* A metagraph sync stores another owner.
ChangeOwner(n, s) ==
    /\ edits < MaxEdits /\ owners[n] # s
    /\ owners' = [owners EXCEPT ![n] = s]
    /\ edits' = edits + 1
    /\ ownedBy' = ownedBy \cup {<<n, s>>}
    /\ UNCHANGED <<webhooks, items, turn, route, result>>

\* The admin adds, enables or disables a webhook.
EditWebhook(n, u) ==
    /\ edits < MaxEdits
    /\ webhooks' = IF <<n, u>> \in webhooks THEN webhooks \ {<<n, u>>} ELSE webhooks \cup {<<n, u>>}
    /\ edits' = edits + 1
    /\ UNCHANGED <<owners, ownedBy, items, turn, route, result>>

Next ==
    \/ \E block \in SUBSET Items : Cardinality(block) <= MaxItems /\ Dispatch(block)
    \/ \E ok \in SUBSET Urls : NotifyChannel(ok)
    \/ \E ok \in SUBSET Urls, known \in SUBSET Signers : AnnounceSwaps(ok, known)
    \/ \E n \in Netuids, ok \in SUBSET Urls : PostToSubnet(n, ok)
    \/ SwapsDone \/ HandlerRaises
    \/ \E n \in Netuids, s \in Signers : ChangeOwner(n, s)
    \/ \E n \in Netuids, u \in Urls : EditWebhook(n, u)

Spec == Init /\ [][Next]_vars

-----------------------------------------------------------------------------
\* A URL hears successful items of its own kind only, wrapped in Sudo or not; that of
\* the catch-all those that nobody else is for.  A subnet's webhooks hear of swaps by
\* somebody who owned the subnet at some time of the dispatch, although owners and
\* webhooks change between the lookup and the message.
RightChannel ==
    /\ \A p \in heard : p[2].success /\
          \/ \E k \in DOMAIN Patterns : p[2].kind = k /\ p[1] \in UrlsOf[Patterns[k]]
          \/ /\ p[1] \in UrlsOf["sudo"] /\ p[2].kind \notin DOMAIN Patterns
             /\ p[2].wrapped \/ p[2].kind = "sudo"
    /\ \A p \in heardBy :
          p[2].success /\ p[2].kind = "swap" /\ <<p[1], p[2].signer>> \in ownedBy

Delivered == {p[2] : p \in heard}

\* When a block is through, every successful item that has a handler has been heard, or
\* its own handler raised or got it to no URL: nothing is swallowed on the way there,
\* whatever happened to the other handlers.  The dispatch never counts an item that no
\* URL took, and counts all the others unless a handler raised.
NothingSwallowed ==
    turn = 0 =>
        /\ \A e \in items :
              e.success /\ (e.kind \in DOMAIN Patterns \/ e.wrapped \/ e.kind = "sudo")
              => e \in unheard \cup Delivered
        /\ total <= Cardinality(Delivered)
        /\ ~raised => total = Cardinality(Delivered)
=============================================================================
