------------------------------ MODULE VoicePage ------------------------------
(***************************************************************************)
(* The title and the captions of one conversation between the voice page   *)
(* (src/static/voice.html) that has it open and the row the server keeps.  *)
(*                                                                         *)
(* Three parts of the page name a conversation, each with a PATCH of its   *)
(* own: the rename dialog, which also locks the title, the first words     *)
(* said in a call, and the hang-up, which asks the gateway for the title   *)
(* chatgpt.com gave the thread.  The PATCHes are not serialized: each is   *)
(* sent when its handler gets there, applied when the server reads it and  *)
(* answered later.  Captions are posted one at a time, in a chain.         *)
(***************************************************************************)
EXTENDS ConversationTable, Sequences

CONSTANTS
    FirstWords,         \* content -> its first 42 runes (clampText)
    Grows, Extends,     \* pairs of contents, of titles: the first a prefix
    RenameTitles,       \* titles the user types
    OfficialTitles,     \* titles of chatgpt.com
    mine, theirs,       \* the first message of the user, the assistant's answer
    NetFaults,          \* whether a request or its answer may be lost
    MaxSent,            \* bound: PATCH requests of the page
    MaxHeard,           \* bound: captions
    MaxReloads          \* bound: reloads of the page

ASSUME PageAssumption ==
    /\ FirstWords \in [Contents -> Titles]
    /\ RenameTitles \subseteq Titles /\ OfficialTitles \subseteq Titles
    /\ mine \in Messages /\ theirs \in Messages /\ mine # theirs
    /\ NetFaults \in BOOLEAN
    /\ MaxSent \in Nat /\ MaxHeard \in Nat /\ MaxReloads \in Nat

VARIABLES
    row,                \* the conversation's row
    said,               \* its messages
    session,            \* the page's copy of title and title_locked
    titleLocked,        \* the page's variable of that name
    applied,            \* upstreamTitleAppliedFor = conversationId
    call,               \* where startCall and stopCall are
    renaming,           \* the rename dialog waits for its answer
    patches,            \* PATCH requests in flight: number -> request
    captions,           \* currentSessionHistory
    last,               \* its last message
    chain,              \* conversationWriteChain: captions not yet answered
    \* history
    renamed,            \* title of the last rename the user saw confirmed
    quiet,              \* no other PATCH overlapped that rename
    lossy,              \* a caption failed or was dropped
    sent, heard, reloads

server == <<row, said>>
titles == <<session, titleLocked, applied>>
speech == <<captions, last, chain, lossy, heard>>
rename == <<renaming, renamed, quiet>>
pageVars == <<server, titles, speech, rename, call, patches, sent, reloads>>

\* "stopping": the ids are being saved; "asking": GET title is under way;
\* "retitling": the PATCH with what it answered; "releasing": the last request.
CallStates == {"idle", "live", "stopping", "asking", "retitling", "releasing"}

Senders == {"user", "speech", "hangup", "gone"}

PatchRequest == [from : Senders, title : Titles, lock : Locks,
                 step : {"sent", "done"}]

PageInit ==
    /\ row = Created(NoTitle) /\ said = << >>
    /\ session = [title |-> NoTitle, titleLocked |-> FALSE]
    /\ titleLocked = FALSE /\ applied = FALSE
    /\ call = "idle" /\ renaming = FALSE
    /\ patches = << >>
    /\ captions = << >> /\ last = mine /\ chain = << >>
    /\ renamed = NoTitle /\ quiet = FALSE /\ lossy = FALSE
    /\ sent = 0 /\ heard = 0 /\ reloads = 0

\* renameConversationSession as far as its await.
Sends(from, title, lock) ==
    /\ sent < MaxSent
    /\ sent' = sent + 1
    /\ patches' = Stored(patches, sent, [from |-> from, title |-> title,
                                         lock |-> lock, step |-> "sent"])

-----------------------------------------------------------------------------
(* A call, its first words and its captions.                               *)

Dials ==
    /\ call = "idle"
    /\ call' = "live"
    /\ UNCHANGED <<server, titles, speech, rename, patches, sent, reloads>>

\* The transport names a thread the page did not know.
NewThread ==
    /\ call = "live"
    /\ applied' = FALSE
    /\ UNCHANGED <<server, session, titleLocked, speech, rename, call, patches,
                   sent, reloads>>

\* rememberLocalMessage, rememberAssistantText: a message begins, or the last
\* one grows.
Hears(message, content) ==
    /\ call = "live"
    /\ heard < MaxHeard
    /\ message \in DOMAIN captions => last = message
    /\ last' = message
    /\ heard' = heard + 1
    /\ captions' = Stored(captions, message, content)
    /\ chain' = Append(chain, [message |-> message, content |-> content])
    /\ UNCHANGED lossy

\* maybeApplyFirstUserTitle: whether the words become the title.
NamesIt(title) ==
    /\ ~titleLocked /\ ~applied /\ ~session.titleLocked
    /\ \/ session.title = NoTitle
       \/ session.title # title /\ {<<session.title, title>>, <<title, session.title>>} \cap Extends # {}

HearsAssistant(content) ==
    /\ Hears(theirs, content)
    /\ UNCHANGED <<server, titles, rename, call, patches, sent, reloads>>

HearsUser(content) ==
    LET title == FirstWords[content] IN
    /\ mine \in DOMAIN captions =>
        captions[mine] = content \/ <<captions[mine], content>> \in Grows
    /\ Hears(mine, content)
    /\ IF NamesIt(title)
       THEN /\ Sends("speech", title, "unlock")
            /\ quiet' = (quiet /\ ~renaming)
       ELSE UNCHANGED <<patches, sent, quiet>>
    /\ titleLocked' = (titleLocked \/ (~applied /\ session.titleLocked))
    /\ UNCHANGED <<server, session, applied, call, renaming, renamed, reloads>>

\* Mutant of PostIsStored: the captions are posted as they come.
PostOvertakes ==
    \E i \in DOMAIN chain :
        /\ said' = Stored(said, chain[i].message, chain[i].content)
        /\ row' = Spoken(row, chain[i].content, chain[i].message \notin DOMAIN said)
        /\ chain' = SubSeq(chain, 1, i - 1) \o SubSeq(chain, i + 1, Len(chain))
        /\ UNCHANGED <<titles, captions, last, lossy, heard, rename, call, patches, sent,
                       reloads>>

\* The first POST of the chain is stored and answered.
PostIsStored ==
    /\ chain # << >>
    /\ LET post == Head(chain) IN
        /\ said' = Stored(said, post.message, post.content)
        /\ row' = Spoken(row, post.content, post.message \notin DOMAIN said)
    /\ chain' = Tail(chain)
    /\ UNCHANGED <<titles, captions, last, lossy, heard, rename, call, patches, sent,
                   reloads>>

\* The first POST fails on its way there or back; the chain goes on.
PostFails ==
    /\ NetFaults
    /\ chain # << >>
    /\ LET post == Head(chain) IN
        \/ /\ said' = Stored(said, post.message, post.content)
           /\ row' = Spoken(row, post.content, post.message \notin DOMAIN said)
        \/ UNCHANGED server
    /\ chain' = Tail(chain)
    /\ lossy' = TRUE
    /\ UNCHANGED <<titles, captions, last, heard, rename, call, patches, sent, reloads>>

-----------------------------------------------------------------------------
(* stopCall and fetchAndApplyUpstreamTitle.                                *)

HangsUp ==
    /\ call = "live"
    /\ call' = "stopping"
    /\ UNCHANGED <<server, titles, speech, rename, patches, sent, reloads>>

\* Mutant of Asks: the hang-up asks whether or not the title is locked.
AsksAnyway ==
    /\ call = "stopping"
    /\ call' = "asking"
    /\ quiet' = (quiet /\ ~renaming)
    /\ UNCHANGED <<server, titles, speech, renaming, renamed, patches, sent, reloads>>

\* The title is not locked, as far as the page knows: the gateway is asked.
Asks ==
    /\ call = "stopping"
    /\ ~titleLocked /\ ~session.titleLocked
    /\ call' = "asking"
    /\ quiet' = (quiet /\ ~renaming)
    /\ UNCHANGED <<server, titles, speech, renaming, renamed, patches, sent, reloads>>

\* It is locked, or there is no gateway session to ask about.
DoesNotAsk ==
    /\ call = "stopping"
    /\ call' = "releasing"
    /\ titleLocked' = (titleLocked \/ session.titleLocked)
    /\ UNCHANGED <<server, session, applied, speech, rename, patches, sent, reloads>>

\* GET title answers a title, which is sent without looking at the lock again.
TitleComes(title) ==
    /\ call = "asking"
    /\ call' = "retitling"
    /\ Sends("hangup", title, "unlock")
    /\ quiet' = (quiet /\ ~renaming)
    /\ UNCHANGED <<server, titles, speech, renaming, renamed, reloads>>

NoTitleComes ==
    /\ call = "asking"
    /\ call' = "releasing"
    /\ UNCHANGED <<server, titles, speech, rename, patches, sent, reloads>>

\* releaseBackendVoiceSession has been answered, or failed: the finally of
\* stopCall clears stoppingCall.
Released ==
    /\ call = "releasing"
    /\ call' = "idle"
    /\ UNCHANGED <<server, titles, speech, rename, patches, sent, reloads>>

-----------------------------------------------------------------------------
(* The rename dialog, which nothing closes to the user during a call.      *)

Renames(title) ==
    /\ ~renaming
    /\ Sends("user", title, "lock")
    /\ renaming' = TRUE
    /\ renamed' = NoTitle
    /\ quiet' = (patches = << >> /\ call # "asking")
    /\ UNCHANGED <<server, titles, speech, call, reloads>>

-----------------------------------------------------------------------------
(* PATCH requests between page and server.                                 *)

\* updateConversation with a title: Store.UpdateTitle.  The answer carries the
\* row as this update left it.
Applies(n) ==
    /\ n \in DOMAIN patches /\ patches[n].step = "sent"
    /\ row' = Titled(row, patches[n].title, patches[n].lock)
    /\ patches' = [patches EXCEPT ![n].step = "done"]
    /\ UNCHANGED <<said, titles, speech, rename, call, sent, reloads>>

\* What the end of the request is to whoever sent it: the dialog closes, the
\* hang-up goes on, whether it was answered or failed (stopCall catches).
Resumes(from) ==
    /\ renaming' = (renaming /\ from # "user")
    /\ call' = IF from = "hangup" THEN "releasing" ELSE call

\* renameConversationSession after its await.
Answered(n) ==
    LET p == patches[n] IN
    /\ n \in DOMAIN patches /\ p.step = "done" /\ p.from # "gone"
    /\ patches' = Without(patches, n)
    /\ Resumes(p.from)
    /\ session' = [title |-> p.title, titleLocked |-> p.lock = "lock"]
    /\ titleLocked' = (p.lock = "lock")
    /\ \/ p.from # "speech" /\ applied' = TRUE
       \/ applied' = applied
    /\ renamed' = IF p.from = "user" THEN p.title ELSE renamed
    /\ UNCHANGED <<server, speech, quiet, sent, reloads>>

\* The page is told of an error, though the server may have applied the update
\* or may still do so.
Fails(n) ==
    /\ NetFaults
    /\ n \in DOMAIN patches /\ patches[n].from # "gone"
    /\ patches' = [patches EXCEPT ![n].from = "gone"]
    /\ Resumes(patches[n].from)
    /\ UNCHANGED <<server, titles, speech, renamed, quiet, sent, reloads>>

\* A request whose sender no longer waits is dropped on its way.
Lost(n) ==
    /\ n \in DOMAIN patches /\ patches[n].from = "gone"
    /\ patches' = Without(patches, n)
    /\ UNCHANGED <<server, titles, speech, rename, call, sent, reloads>>

-----------------------------------------------------------------------------
\* Mutant of Reload: the lock is not read back.
ReloadUnlocked ==
    /\ reloads < MaxReloads
    /\ reloads' = reloads + 1
    /\ UNCHANGED server
    /\ session' = [title |-> row.title, titleLocked |-> FALSE]
    /\ titleLocked' = FALSE
    /\ applied' = FALSE
    /\ captions' = said /\ chain' = << >>
    /\ last' \in IF last \in DOMAIN said \/ said = << >> THEN {last}
                ELSE DOMAIN said
    /\ lossy' = (lossy \/ chain # << >>)
    /\ call' = "idle" /\ renaming' = FALSE
    /\ patches' = [n \in DOMAIN patches |-> [patches[n] EXCEPT !.from = "gone"]]
    /\ UNCHANGED <<renamed, quiet, sent, heard>>

\* The page is loaded again (loadConversationDetail).  Captions that were
\* waiting in the chain are lost, PATCH requests may still reach the server.
Reload ==
    /\ reloads < MaxReloads
    /\ reloads' = reloads + 1
    /\ UNCHANGED server
    /\ session' = [title |-> row.title, titleLocked |-> row.locked]
    /\ titleLocked' = row.locked
    /\ applied' = FALSE
    /\ captions' = said /\ chain' = << >>
    /\ last' \in IF last \in DOMAIN said \/ said = << >> THEN {last}
                ELSE DOMAIN said
    /\ lossy' = (lossy \/ chain # << >>)
    /\ call' = "idle" /\ renaming' = FALSE
    /\ patches' = [n \in DOMAIN patches |-> [patches[n] EXCEPT !.from = "gone"]]
    /\ UNCHANGED <<renamed, quiet, sent, heard>>

PageNext ==
    \/ Dials \/ NewThread \/ HangsUp \/ Asks \/ DoesNotAsk \/ NoTitleComes
    \/ Released
    \/ \E c \in Contents : HearsUser(c) \/ HearsAssistant(c)
    \/ PostIsStored \/ PostFails
    \/ \E t \in OfficialTitles : TitleComes(t)
    \/ \E t \in RenameTitles : Renames(t)
    \/ \E n \in DOMAIN patches : Applies(n) \/ Lost(n) \/ Answered(n) \/ Fails(n)
    \/ Reload

PageSpec == PageInit /\ [][PageNext]_pageVars

-----------------------------------------------------------------------------
PageTypeOK ==
    /\ row \in Row
    /\ last \in Messages
    /\ DOMAIN said \subseteq Messages /\ DOMAIN captions \subseteq Messages
    /\ \A m \in DOMAIN said : said[m] \in Contents
    /\ \A m \in DOMAIN captions : captions[m] \in Contents
    /\ chain \in Seq([message : Messages, content : Contents])
    /\ session \in [title : Titles \cup {NoTitle}, titleLocked : BOOLEAN]
    /\ {titleLocked, applied, renaming, quiet, lossy} \subseteq BOOLEAN
    /\ call \in CallStates
    /\ renamed \in Titles \cup {NoTitle}
    /\ sent \in Nat /\ heard \in Nat /\ reloads \in Nat
    /\ DOMAIN patches \subseteq {n \in Nat : n < sent}
    /\ \A n \in DOMAIN patches : patches[n] \in PatchRequest

\* A rename that no automatic title overlapped stays, title and lock, until the
\* next rename: through calls, captions, hang-ups and reloads of the page
\* (voice.html:2619-2626, 2660-2671, 2756; store.go:153-158, 329-332).
QuietRenameStays ==
    quiet /\ renamed # NoTitle => row.locked /\ row.title = renamed

\* Once the chain has run dry and no POST failed, the server has every caption
\* of the page in its last version: a caption that grows is never overtaken by
\* an earlier version of itself (voice.html:3181-3205).
CaptionsArrive ==
    ~lossy /\ chain = << >> => said = captions

-----------------------------------------------------------------------------
(* What does not hold.                                                     *)

\* "Hangup must not replace a locked title with the upstream chatgpt.com title"
\* (store.go:30-31), "so hangup never overwrites" (voice.html:4999): the PATCH of
\* a hang-up never changes a row that is locked.  One that is on its way when the
\* rename is confirmed does; QuietRenameStays is what holds instead.
HangupKeepsLockedTitle ==
    [][\A n \in DOMAIN patches :
        /\ patches[n].from = "hangup" /\ row.locked
        /\ n \in DOMAIN patches' /\ patches'[n].step # patches[n].step
        => row' = row]_pageVars
=============================================================================
