------------------------------- MODULE Chats -------------------------------
(***************************************************************************)
(* Chats of the Node server: messages with swipe variants and manual-edit  *)
(* revisions (packages/db/src/repositories), the chat routes, and the      *)
(* generation route that streams a reply and saves it                      *)
(* (apps/server/src/plugins/chats.ts, generate.ts).                        *)
(*                                                                         *)
(* The SQLite driver is synchronous: a route that only uses the database   *)
(* is one step.  A generation waits for plugins, for the provider and for  *)
(* post-processors; other requests run in between.                         *)
(***************************************************************************)
EXTENDS Integers, Sequences, SequencesExt, FiniteSetsExt

CONSTANTS
    MaxChats,      \* bound: chats ever created
    MaxGens,       \* bound: generation requests
    Keys,          \* idempotency keys of clients
    None,          \* SQL NULL, an absent row or an absent field
    Greetings,     \* number of greetings of the character
    MaxPending,    \* frontend interceptors in flight together; 32 in the code
    MaxMessages,   \* bound: message rows ever inserted
    MaxTexts,      \* bound: texts ever written
    MaxBranches,   \* bound: branches of a chat
    Slow,          \* bound: the generations whose client may stop reading
    Budgets        \* bound: how many generations and how many other requests

ASSUME ChatBounds ==
    /\ Greetings \in Nat /\ MaxPending \in Nat /\ MaxMessages \in Nat
    /\ MaxTexts \in Nat /\ MaxBranches \in Nat /\ MaxChats \in Nat
    /\ MaxGens \in Nat /\ Slow \subseteq 1 .. MaxGens /\ Budgets \subseteq [gens : 0 .. MaxGens, requests : Nat]

VARIABLES
    chats,      \* chat rows in creation order; None when purged
    messages,   \* message rows in creation order; None when deleted
    gens,       \* the generation requests, in the order they start
    audits,     \* per chat the latest prompt audit: generation and status
    editor,     \* a client that has read a message and will PATCH it, or None
    lastText,   \* texts are numbered as they are first written
    requests,   \* what is left of the budget of requests
    starts,     \* what is left of the budget of generations
    ever,       \* history: per message the texts it has shown
    dropped,    \* history: per message texts that an untracked write replaced
    unseeded,   \* history: messages inserted without variant columns
    switched,   \* history: chats whose active branch was PATCHed
    blind,      \* history: conditional edits that replaced an unread text
    saved       \* history: generations whose text is in the database

history == <<ever, dropped, unseeded, switched, blind, saved>>
vars == <<chats, messages, gens, audits, editor, lastText, requests, starts, history>>

Gens == 1 .. MaxGens

-----------------------------------------------------------------------------
(* Rows.                                                                   *)

\* The tables: variants by position, messages, chats.  Each position of a message
\* but the first is of a text of its own, so that MaxTexts bounds them too.
Positions == 0 .. MaxTexts
Variants == UNION {[D -> Nat] : D \in SUBSET Positions}
MessageRows ==
    [chat : Nat, branch : Nat, role : {"user", "assistant"}, greeting : BOOLEAN,
     content : Nat, revision : Nat, variants : Variants, variantCount : Nat,
     active : Positions \cup {None}, revisions : Seq(Nat), key : Keys \cup {None}]
ChatRecords ==
    [deleted : BOOLEAN, active : Nat \cup {None}, branches : Nat, count : Nat]

ASSUME NoneAssumption ==
    None \notin Nat /\ None \notin MessageRows /\ None \notin ChatRecords

Live(ms) == {m \in DOMAIN ms : ms[m] # None}
Exists(c) == chats[c] # None

\* A fresh message has one variant: its content.
Row(c, b, role, content, key) ==
    [chat |-> c, branch |-> b, role |-> role, greeting |-> FALSE,
     content |-> content, revision |-> 1, variants |-> << >>,
     variantCount |-> 1, active |-> 0, revisions |-> <<>>, key |-> key]

\* The greeting is inserted with the column defaults.
GreetingRow(c, text) ==
    [Row(c, 1, "assistant", text, None) EXCEPT
        !.greeting = TRUE, !.variantCount = 0, !.active = None]

OldActive(row) == IF row.active = None THEN 0 ELSE row.active

\* A variant row at the active position would collide with the unique index.
Collides(row) == OldActive(row) \in DOMAIN row.variants

Archived(row, text) ==
    [p \in DOMAIN row.variants \cup {OldActive(row)} |->
        IF p = OldActive(row) THEN text ELSE row.variants[p]]

\* update: manual edits archive the text they replace.
Patched_Untracked(row, text, tracked) ==
    [row EXCEPT !.content = text, !.revision = row.revision + 1]
Patched(row, text, tracked) ==
    [row EXCEPT !.content = text, !.revision = row.revision + 1,
                !.revisions = IF tracked /\ text # row.content
                              THEN Append(@, row.content) ELSE @]

\* restoreContentRevision: an equal text is no write at all.
Restored(row, i) ==
    IF row.revisions[i] = row.content THEN row
    ELSE Patched(row, row.revisions[i], TRUE)

\* setActiveVariant: the two texts change places.
Swiped(row, p) ==
    [row EXCEPT !.content = row.variants[p], !.active = p,
                !.revision = row.revision + 1,
                !.variants = [q \in (DOMAIN row.variants \cup {OldActive(row)}) \ {p} |->
                                Archived(row, row.content)[q]]]

\* replaceContentAsVariant: archive what was captured, write the reply.
Replaced(row, captured, text) ==
    [row EXCEPT !.content = text, !.greeting = FALSE,
                !.variants = Archived(row, captured),
                !.variantCount = row.variantCount + 1,
                !.active = row.variantCount,
                !.revision = row.revision + 1]

OfBranch(ms, c, b) == {m \in Live(ms) : ms[m].chat = c /\ ms[m].branch = b}
Count(ms, c, b) == Cardinality(OfBranch(ms, c, b))
\* recentAscending(.., 1); 0 when the branch is empty.
Latest(c, b) == Max(OfBranch(messages, c, b) \cup {0})

\* Routes that write make sure that the chat has an active branch.
WithBranch(chat) ==
    IF chat.active # None THEN chat
    ELSE [chat EXCEPT !.active = chat.branches + 1, !.branches = @ + 1]

-----------------------------------------------------------------------------

NoGen == [pc |-> "idle", chat |-> None, branch |-> 0, target |-> 0,
          captured |-> 0, aborted |-> FALSE]

Ended == [NoGen EXCEPT !.pc = "ended"]
\* The error event of the provider is written but not yet flushed to the client.
Told == [NoGen EXCEPT !.pc = "told"]

NewChat(n) == [deleted |-> FALSE, active |-> 1, branches |-> 1, count |-> n]

\* One chat: with its greeting, or with a question and a reply.
Init ==
    /\ messages \in {<<GreetingRow(1, 1)>>,
                     <<Row(1, 1, "user", 1, None), Row(1, 1, "assistant", 2, None)>>}
    /\ chats = <<NewChat(Len(messages))>>
    /\ gens = [g \in Gens |-> NoGen]
    /\ audits = <<None>>
    /\ editor = None
    /\ lastText = Max({Greetings, 2})
    /\ \E budget \in Budgets : requests = budget.requests /\ starts = budget.gens
    /\ ever = [m \in DOMAIN messages |-> {messages[m].content}]
    /\ dropped = [m \in DOMAIN messages |-> {}]
    /\ unseeded = {m \in DOMAIN messages : messages[m].greeting}
    /\ switched = {}
    /\ blind = {}
    /\ saved = {}

Request == requests > 0 /\ requests' = requests - 1 /\ UNCHANGED starts
Fresh == lastText < MaxTexts /\ lastText' = lastText + 1
BranchBound(c) == chats[c].active = None => chats[c].branches < MaxBranches
Room(n) == Len(messages) + n <= MaxMessages

\* New rows, and what has been shown of them.
Insert(rows) ==
    /\ messages' = messages \o rows
    /\ ever' = ever \o [i \in DOMAIN rows |-> {rows[i].content}]
    /\ dropped' = dropped \o [i \in DOMAIN rows |-> {}]

\* A row is written; texts that it loses on purpose are recorded.
Rewrite(m, row, losing) ==
    /\ messages' = [messages EXCEPT ![m] = row]
    /\ ever' = [ever EXCEPT ![m] = @ \cup {row.content}]
    /\ dropped' = [dropped EXCEPT ![m] = @ \cup losing]

SetCount(c, chat, ms) ==
    chats' = [chats EXCEPT ![c] = [chat EXCEPT !.count = Count(ms, c, chat.active)]]

-----------------------------------------------------------------------------
(* Chat routes.                                                            *)

Unstarted(c) ==
    /\ Exists(c) /\ ~chats[c].deleted
    /\ \A m \in Live(messages) : messages[m].chat = c => messages[m].role # "user"

\* POST /chats: reuseUnstarted returns a chat without user input, if any.
CreateChat(reuse) ==
    /\ Request
    /\ reuse => \A c \in DOMAIN chats : ~Unstarted(c)
    /\ Room(1) /\ Len(chats) < MaxChats
    /\ \E text \in 1 .. Greetings : Insert(<<GreetingRow(Len(chats) + 1, text)>>)
    /\ chats' = Append(chats, NewChat(1))
    /\ audits' = Append(audits, None)
    /\ unseeded' = unseeded \cup {Len(messages) + 1}
    /\ UNCHANGED <<gens, editor, lastText, switched, blind, saved>>

\* PATCH /chats/:id with an activeBranchId; null is accepted.
PatchActiveBranch(c) ==
    /\ Request /\ Exists(c)
    /\ \E b \in (1 .. chats[c].branches) \cup {None} :
        chats' = [chats EXCEPT ![c].active = b]
    /\ switched' = switched \cup {c}
    /\ UNCHANGED <<messages, gens, audits, editor, lastText, ever, dropped,
                   unseeded, blind, saved>>

\* DELETE /chats/:id and POST /chats/:id/restore: the bin.
Trash(c) ==
    /\ Request /\ Exists(c)
    /\ chats' = [chats EXCEPT ![c].deleted = ~@]
    /\ UNCHANGED <<messages, gens, audits, editor, lastText, history>>

\* DELETE /chats/:id?purge=true: foreign keys cascade.
Purge(c) ==
    /\ Request /\ Exists(c)
    /\ chats' = [chats EXCEPT ![c] = None]
    /\ messages' = [m \in DOMAIN messages |->
                      IF messages[m] # None /\ messages[m].chat = c THEN None ELSE messages[m]]
    /\ audits' = [audits EXCEPT ![c] = None]
    /\ switched' = switched \ {c}
    /\ UNCHANGED <<gens, editor, lastText, ever, dropped, unseeded, blind, saved>>

\* POST /chats/:id/messages: a replayed key returns the original message.
PostMessage(c, role, key) ==
    /\ Request /\ Exists(c) /\ Room(1) /\ BranchBound(c)
    /\ LET chat == WithBranch(chats[c])
           replayed == \E m \in Live(messages) :
                         messages[m].chat = c /\ key # None /\ messages[m].key = key
           row == Row(c, chat.active, role, lastText + 1, key)
       IN  IF replayed
           THEN /\ SetCount(c, chat, messages)
                /\ UNCHANGED <<messages, lastText, ever, dropped>>
           ELSE /\ Fresh
                /\ Insert(<<row>>)
                /\ SetCount(c, chat, Append(messages, row))
    /\ UNCHANGED <<gens, audits, editor, unseeded, switched, blind, saved>>

\* DELETE /chats/:id/messages/:messageId.
DeleteMessage(m) ==
    /\ Request /\ messages[m] # None
    /\ messages' = [messages EXCEPT ![m] = None]
    /\ LET c == messages[m].chat
       IN  IF chats[c].active = None THEN UNCHANGED chats
           ELSE SetCount(c, chats[c], messages')
    /\ UNCHANGED <<gens, audits, editor, lastText, history>>

\* A client reads a message; it will PATCH it with that revision.
ReadForEdit(m) ==
    /\ editor = None /\ messages[m] # None
    /\ editor' = [message |-> m, revision |-> messages[m].revision,
                  content |-> messages[m].content]
    /\ UNCHANGED <<chats, messages, gens, audits, lastText, requests, starts, history>>

\* PATCH /chats/:id/messages/:messageId with expectedRevision.  A message
\* that is gone or has moved on is a 404 or a conflict.
EditAsRead ==
    /\ editor # None /\ Request
    /\ editor' = None
    /\ LET m == editor.message IN
       IF messages[m] # None /\ (messages[m] # None => messages[m].revision = editor.revision)
       THEN /\ Fresh
            /\ Rewrite(m, Patched(messages[m], lastText + 1, TRUE), {})
            /\ blind' = IF messages[m].content # editor.content
                        THEN blind \cup {m} ELSE blind
       ELSE UNCHANGED <<messages, lastText, ever, dropped, blind>>
    /\ UNCHANGED <<chats, gens, audits, unseeded, switched, saved>>

\* The same PATCH without expectedRevision; the text may be the old one.
EditUnconditionally(m) ==
    /\ Request /\ messages[m] # None
    /\ \/ Fresh /\ Rewrite(m, Patched(messages[m], lastText + 1, TRUE), {})
       \/ Rewrite(m, Patched(messages[m], messages[m].content, TRUE), {}) /\ UNCHANGED lastText
    /\ UNCHANGED <<chats, gens, audits, editor, unseeded, switched, blind, saved>>

\* isGreetingSwipePatch: another greeting is shown, without a revision.
SwipeGreeting(m) ==
    /\ Request /\ messages[m] # None /\ messages[m].greeting
    /\ \E text \in 1 .. Greetings :
        /\ text # messages[m].content
        /\ Rewrite(m, Patched(messages[m], text, FALSE), {messages[m].content})
    /\ UNCHANGED <<chats, gens, audits, editor, lastText, unseeded, switched, blind, saved>>

\* POST .../revisions/:revisionId/restore.
RestoreRevision(m) ==
    /\ Request /\ messages[m] # None
    /\ \E i \in DOMAIN messages[m].revisions :
        Rewrite(m, Restored(messages[m], i), {})
    /\ UNCHANGED <<chats, gens, audits, editor, lastText, unseeded, switched, blind, saved>>

\* POST .../swipe and .../variants/:variantId/activate.
SwipeVariant(m) ==
    /\ Request /\ messages[m] # None /\ ~Collides(messages[m])
    /\ \E p \in DOMAIN messages[m].variants :
        Rewrite(m, Swiped(messages[m], p), {})
    /\ UNCHANGED <<chats, gens, audits, editor, lastText, unseeded, switched, blind, saved>>

\* Ids in ascending order.
InOrder(ids) ==
    [i \in 1 .. Cardinality(ids) |->
        CHOOSE n \in ids : Cardinality({k \in ids : k <= n}) = i]

Copied_NoVariants(row, c) ==
    [row EXCEPT !.chat = c, !.branch = 1, !.revision = 1, !.key = None, !.variants = <<>>]
Copied(row, c) ==
    [row EXCEPT !.chat = c, !.branch = 1, !.revision = 1, !.key = None]

\* POST /chats/:id/snapshots: the prefix of the active branch becomes a chat;
\* a checkpoint also links the source message to it.
Snapshot(m, checkpoint) ==
    /\ Request /\ messages[m] # None
    /\ LET c == messages[m].chat
           prefix == InOrder({n \in OfBranch(messages, c, messages[m].branch) : n <= m})
           copies == [i \in DOMAIN prefix |-> Copied(messages[prefix[i]], Len(chats) + 1)]
           linked == IF checkpoint THEN [messages EXCEPT ![m].revision = @ + 1] ELSE messages
       IN  /\ messages[m].branch = chats[c].active
           /\ Room(Len(prefix)) /\ Len(chats) < MaxChats
           /\ messages' = linked \o copies
           /\ ever' = ever \o [i \in DOMAIN copies |-> {copies[i].content}]
           /\ dropped' = dropped \o [i \in DOMAIN copies |-> {}]
           /\ chats' = Append(chats, NewChat(Len(copies)))
           /\ audits' = Append(audits, None)
           /\ unseeded' = unseeded \cup
                {Len(messages) + i : i \in {j \in DOMAIN prefix : prefix[j] \in unseeded}}
    /\ UNCHANGED <<gens, editor, lastText, switched, blind, saved>>

-----------------------------------------------------------------------------
(* POST /chats/:id/generate.                                               *)

\* What the client asks for: a reply to a user message, one more reply, the
\* legacy regenerate flag, or the regeneration of one message.
Start(g, c, want, id) ==
    /\ starts > 0 /\ starts' = starts - 1
    /\ gens[g].pc = "idle" /\ \A h \in 1 .. g - 1 : gens[h].pc # "idle"
    /\ Exists(c) /\ BranchBound(c)
    /\ LET chat == WithBranch(chats[c])
           last == IF chats[c].active = None THEN 0 ELSE Latest(c, chat.active)
           assistant == IF last = 0 THEN FALSE ELSE messages[last].role = "assistant"
           moved == want = "message" /\ ~(last = id /\ assistant)
           target == IF want \in {"legacy", "message"} /\ assistant THEN last ELSE 0
           row == Row(c, chat.active, "user", lastText + 1, None)
       IN  /\ gens' = [gens EXCEPT ![g] =
                        IF moved THEN Ended
                        ELSE [pc |-> "building", chat |-> c,
                              branch |-> chat.active, target |-> target,
                              captured |-> IF target = 0 THEN 0 ELSE messages[target].content,
                              aborted |-> FALSE]]
           /\ IF want = "reply"
              THEN /\ Fresh /\ Room(2)
                   /\ Insert(<<row>>)
                   /\ SetCount(c, chat, Append(messages, row))
              ELSE /\ chats' = [chats EXCEPT ![c] = chat]
                   /\ UNCHANGED <<messages, lastText, ever, dropped>>
    /\ UNCHANGED <<audits, editor, requests, unseeded, switched, blind, saved>>

\* A client that disconnects aborts its generation.
Disconnect(g) ==
    /\ gens[g].pc \notin {"idle", "ended"} /\ ~gens[g].aborted
    /\ gens' = [gens EXCEPT ![g].aborted = TRUE]
    /\ UNCHANGED <<chats, messages, audits, editor, lastText, requests, starts, history>>

FinishAudit_Anyone(g, status) ==
    LET c == gens[g].chat
    IN  audits' = IF audits[c] = None THEN audits
                  ELSE [audits EXCEPT ![c].status = status]
\* finish: only while the row still belongs to this generation.
FinishAudit(g, status) ==
    LET c == gens[g].chat
    IN  audits' = IF audits[c] = None THEN audits
                  ELSE IF audits[c].gen = g THEN [audits EXCEPT ![c].status = status]
                  ELSE audits

\* An error event, or the catch of the route.
FailAs(g, gen) ==
    /\ FinishAudit(g, IF gens[g].aborted THEN "cancelled" ELSE "failed")
    /\ gens' = [gens EXCEPT ![g] = gen]
    /\ UNCHANGED <<chats, messages, editor, lastText, requests, starts, history>>
Fail(g) == FailAs(g, Ended)

\* The audit row is written and the provider is called.  A purged chat or an
\* aborted request fails before that.
Prepare(g) ==
    IF gens[g].aborted \/ ~Exists(gens[g].chat) THEN Fail(g)
    ELSE /\ audits' = [audits EXCEPT ![gens[g].chat] = [gen |-> g, status |-> "prepared"]]
         /\ gens' = [gens EXCEPT ![g].pc = "streaming"]
         /\ UNCHANGED <<chats, messages, editor, lastText, requests, starts, history>>

Intercepting == {g \in Gens : gens[g].pc = "intercepting"}

\* The prompt is built; the provider configuration may be invalid.  Frontend
\* interceptors are asked unless too many are pending: then they are skipped.
Build(g) ==
    /\ gens[g].pc = "building"
    /\ \/ Fail(g)
       \/ Prepare(g)
       \/ /\ Cardinality(Intercepting) < MaxPending /\ ~gens[g].aborted
          /\ gens' = [gens EXCEPT ![g].pc = "intercepting"]
          /\ UNCHANGED <<chats, messages, audits, editor, lastText, requests, starts, history>>

InterceptEnds_Connected(g) ==
    gens[g].pc = "intercepting" /\ ~gens[g].aborted /\ Prepare(g)
\* The answer, the timeout or the disconnect: all three go on.
InterceptEnds(g) == gens[g].pc = "intercepting" /\ Prepare(g)

\* The provider reports an error, throws, or ends without a terminal event.  The
\* error event is sent like the others: the route waits until it is flushed.
StreamFails(g) ==
    /\ gens[g].pc = "streaming"
    /\ Fail(g) \/ (~gens[g].aborted /\ g \in Slow /\ FailAs(g, Told))

\* waitForDrain: the client does not read, and its buffer is full.  While it is
\* connected nothing but the client ends the wait, which has no timeout.
Stall(g) ==
    /\ gens[g].pc = "streaming" /\ ~gens[g].aborted /\ g \in Slow
    /\ gens' = [gens EXCEPT ![g].pc = "draining"]
    /\ UNCHANGED <<chats, messages, audits, editor, lastText, requests, starts, history>>

Drained_DrainOnly(g) ==
    /\ ~gens[g].aborted /\ gens[g].pc \in {"draining", "told"}
    /\ gens' = [gens EXCEPT ![g] = IF gens[g].pc = "told" THEN Ended
                                   ELSE [gens[g] EXCEPT !.pc = "streaming"]]
    /\ UNCHANGED <<chats, messages, audits, editor, lastText, requests, starts, history>>
\* The drain event, or the close of the connection.
Drained(g) ==
    /\ gens[g].pc \in {"draining", "told"}
    /\ gens' = [gens EXCEPT ![g] = IF gens[g].pc = "told" THEN Ended
                                   ELSE [gens[g] EXCEPT !.pc = "streaming"]]
    /\ UNCHANGED <<chats, messages, audits, editor, lastText, requests, starts, history>>
Released(g) == gens[g].aborted /\ Drained(g)

\* The done event: post-processors run, each with a timeout.
StreamDone(g) ==
    /\ gens[g].pc = "streaming"
    /\ gens' = [gens EXCEPT ![g].pc = "post"]
    /\ UNCHANGED <<chats, messages, audits, editor, lastText, requests, starts, history>>

\* The database refuses the reply: its chat or its target is gone, or the
\* archived text has no free position.
Unsavable(g) ==
    LET t == gens[g].target
    IN  IF t = 0 THEN ~Exists(gens[g].chat)
        ELSE IF messages[t] = None THEN TRUE ELSE Collides(messages[t])

Save(g) ==
    /\ Fresh
    /\ LET c == gens[g].chat
           t == gens[g].target
           row == Row(c, gens[g].branch, "assistant", lastText + 1, None)
       IN  IF t = 0
           THEN /\ Room(1)
                /\ Insert(<<row>>)
                /\ chats' = [chats EXCEPT ![c].count =
                                Count(Append(messages, row), c, gens[g].branch)]
           ELSE /\ messages[t].variantCount \in Positions
                /\ Rewrite(t, Replaced(messages[t], gens[g].captured, lastText + 1),
                           {messages[t].content} \ {gens[g].captured})
                /\ UNCHANGED chats
    /\ saved' = saved \cup {g}
    /\ FinishAudit(g, "completed")
    /\ gens' = [gens EXCEPT ![g] = Ended]
    /\ UNCHANGED <<editor, requests, starts, unseeded, switched, blind>>

\* An empty text is a failure too.
Finish(g) ==
    /\ gens[g].pc = "post"
    /\ \/ Fail(g)
       \/ ~Unsavable(g) /\ Save(g)

-----------------------------------------------------------------------------

Step(g) ==
    \/ Build(g) \/ InterceptEnds(g)
    \/ StreamFails(g) \/ StreamDone(g) \/ Released(g) \/ Finish(g)

Next ==
    \/ \E reuse \in BOOLEAN : CreateChat(reuse)
    \/ \E c \in DOMAIN chats :
        \/ PatchActiveBranch(c) \/ Trash(c) \/ Purge(c)
        \/ \E key \in Keys \cup {None}, role \in {"user", "assistant"} : PostMessage(c, role, key)
    \/ EditAsRead
    \/ \E m \in DOMAIN messages :
        \/ DeleteMessage(m) \/ ReadForEdit(m) \/ EditUnconditionally(m)
        \/ SwipeGreeting(m) \/ RestoreRevision(m) \/ SwipeVariant(m)
        \/ \E checkpoint \in BOOLEAN : Snapshot(m, checkpoint)
    \/ \E g \in Gens :
        \/ \E c \in DOMAIN chats :
            \/ \E want \in {"reply", "more", "legacy"} : Start(g, c, want, 0)
            \/ \E m \in DOMAIN messages : Start(g, c, "message", m)
        \/ Disconnect(g) \/ Stall(g) \/ Drained(g) \/ Step(g)

\* Providers end their stream, interceptors and post-processors have timers, and a
\* closed connection ends the wait for it.  Nothing makes a connected client read.
Fairness == \A g \in Gens : WF_vars(Step(g))

Spec == Init /\ [][Next]_vars /\ Fairness

-----------------------------------------------------------------------------

Statuses == {"prepared", "completed", "failed", "cancelled"}
Pcs == {"idle", "building", "intercepting", "streaming", "draining", "post", "told", "ended"}
Over == {"told", "ended"}

\* The type invariant: rows are well formed and foreign keys resolve.
TypeOK ==
    /\ \A c \in DOMAIN chats : chats[c] # None =>
        /\ chats[c].deleted \in BOOLEAN /\ chats[c].count \in Nat
        /\ chats[c].active \in (1 .. chats[c].branches) \cup {None}
    /\ \A m \in Live(messages) :
        /\ Exists(messages[m].chat)
        /\ messages[m].branch \in 1 .. chats[messages[m].chat].branches
        /\ messages[m].content \in 1 .. lastText
    /\ \A g \in Gens : gens[g].pc \in Pcs
    /\ \A c \in DOMAIN chats : audits[c] # None => audits[c].status \in Statuses /\ Exists(c)

\* The positions of the variants are 0..variantCount-1 with one hole, the
\* active one (messages.ts setActiveVariant).  Greetings, which are inserted
\* without the two columns, are left out.
VariantHole ==
    \A m \in Live(messages) \ unseeded :
        /\ messages[m].active \in 0 .. messages[m].variantCount - 1
        /\ DOMAIN messages[m].variants =
             (0 .. messages[m].variantCount - 1) \ {messages[m].active}

\* The same for every message, as the comment in messages.ts has it.
VariantHoleAlways ==
    \A m \in Live(messages) :
        messages[m].variantCount > 0 =>
            DOMAIN messages[m].variants =
                (0 .. messages[m].variantCount - 1) \ {OldActive(messages[m])}

\* Every text a message has shown is still there, as its content, a variant
\* or a revision: edits, swipes, restores and regenerations interleave without
\* losing one.  Left out are the two writes that replace a text without
\* archiving it: a greeting swipe, and a reply whose target changed meanwhile.
TextKept ==
    \A m \in Live(messages) :
        ever[m] \ dropped[m] \subseteq
            {messages[m].content} \cup Range(messages[m].revisions)
              \cup {messages[m].variants[p] : p \in DOMAIN messages[m].variants}

\* The same with no exception for the reply that finishes late.
NothingDropped ==
    \A m \in Live(messages) \ unseeded : dropped[m] = {}

\* A PATCH with expectedRevision never replaces a text its author has not
\* read, whatever else wrote the message in between.
NoBlindEdit == blind = {}

\* messageCount is the number of messages of the active branch, unless a
\* client moved the active branch (the PATCH does not recount).
CountRight ==
    \A c \in DOMAIN chats \ switched :
        chats[c] # None => chats[c].count = Count(messages, c, chats[c].active)

\* The audit of a chat tells the truth about the generation it names: it is
\* open exactly while that generation runs (a failure is on record before the
\* client has read of it), and `completed` exactly when the reply was saved,
\* although generations of one chat overlap.
AuditTruthful ==
    \A c \in DOMAIN chats : audits[c] # None =>
        LET g == audits[c].gen
        IN  /\ (audits[c].status = "prepared") <=> (gens[g].pc \notin Over)
            /\ (audits[c].status = "completed") <=> (g \in saved)

\* The route waits for a client that keeps its connection and does not read.
WaitsForClient(g) == gens[g].pc \in {"draining", "told"} /\ ~gens[g].aborted

\* Every generation that starts ends, unless its client is connected and does not
\* read: the one wait of the route that has no timer.  A generation whose client
\* reads on, or leaves in the middle of such a wait, is under way again.
GenerationEnds ==
    \A g \in Gens : gens[g].pc # "idle" ~> (gens[g].pc = "ended" \/ WaitsForClient(g))

\* The rows of a chat, in one: types and foreign keys, the variant positions
\* and the message count, under overlapping generations.
ChatRowsSound == TypeOK /\ VariantHole /\ CountRight

\* What edits may not do, in one: lose a text or replace one unread.
EditsSafe == TextKept /\ NoBlindEdit
=============================================================================
