------------------------------ MODULE Delivery ------------------------------
(***************************************************************************)
(* Delivery of codes (notifications/): a background task per committed     *)
(* code posts it to the administrator's Telegram chat and, unless Telegram *)
(* confirms, sends it by e-mail.  The tasks run on a pool of threads, and  *)
(* what was posted goes on without the task that posted it.                *)
(*                                                                         *)
(* Codes are numbered in the order of their commits.  Registration codes   *)
(* and one-time passwords differ in the text and the e-mail address only.  *)
(***************************************************************************)
EXTENDS Naturals, Sequences, SequencesExt

CONSTANTS
    Codes,      \* 1 .. n
    MaxCrashes  \* bound on the crashes of the server

ASSUME ConstantsAssumption ==
    /\ Codes \subseteq Nat
    /\ MaxCrashes \in Nat

VARIABLES
    configured, \* the channels with settings
    task,       \* the background task of a code
    wire,       \* the codes posted to Telegram that it has not looked at
    reply,      \* Telegram's answer to a post
    chat,       \* the administrator's chat, oldest message first
    inbox,      \* the codes mailed
    crashes

vars == <<configured, task, wire, reply, chat, inbox, crashes>>

Active == {"queued", "telegram", "email"}

\* "confirmed" is a task that returned True for Telegram, "emailed" for e-mail.
Ended == {"confirmed", "emailed", "failed", "lost"}

Init ==
    /\ configured \in SUBSET {"telegram", "smtp"}
    /\ task = [c \in Codes |-> "none"]
    /\ wire = {}
    /\ reply = [c \in Codes |-> "none"]
    /\ chat = <<>>
    /\ inbox = {}
    /\ crashes = 0

Becomes(c, state) == task' = [task EXCEPT ![c] = state]

\* Variant: a code that was not delivered is handed over again.
ScheduleAgain(c) ==
    /\ task[c] \in {"none", "failed"}
    /\ \A d \in Codes : d < c => task[d] # "none"
    /\ Becomes(c, "queued")
    /\ UNCHANGED <<configured, wire, reply, chat, inbox, crashes>>

\* The request that committed the code hands it over.
Schedule(c) ==
    /\ task[c] = "none"
    /\ \A d \in Codes : d < c => task[d] # "none"
    /\ Becomes(c, "queued")
    /\ UNCHANGED <<configured, wire, reply, chat, inbox, crashes>>

-----------------------------------------------------------------------------
(* _send_text.                                                             *)

\* No settings, or no connection.
TelegramUnavailable(c) ==
    /\ task[c] = "queued"
    /\ Becomes(c, "email")
    /\ UNCHANGED <<configured, wire, reply, chat, inbox, crashes>>

TelegramPost(c) ==
    /\ task[c] = "queued"
    /\ "telegram" \in configured
    /\ Becomes(c, "telegram")
    /\ wire' = wire \cup {c}
    /\ UNCHANGED <<configured, reply, chat, inbox, crashes>>

\* Telegram takes a post; its answer may come back garbled ("odd": a 2xx without
\* ok=true) or not at all.
TelegramTakes(c) ==
    /\ c \in wire
    /\ wire' = wire \ {c}
    /\ chat' = Append(chat, c)
    /\ \E answer \in {"ok", "odd", "none"} : reply' = [reply EXCEPT ![c] = answer]
    /\ UNCHANGED <<configured, task, inbox, crashes>>

\* Telegram refuses a post, or the network loses it.
TelegramRefuses(c) ==
    /\ c \in wire
    /\ wire' = wire \ {c}
    /\ \E answer \in {"refused", "odd", "none"} : reply' = [reply EXCEPT ![c] = answer]
    /\ UNCHANGED <<configured, task, chat, inbox, crashes>>

\* Variant: any 2xx counts.
ConfirmAny(c) ==
    /\ task[c] = "telegram"
    /\ reply[c] \in {"ok", "odd"}
    /\ Becomes(c, "confirmed")
    /\ UNCHANGED <<configured, wire, reply, chat, inbox, crashes>>

Confirm(c) ==
    /\ task[c] = "telegram"
    /\ reply[c] = "ok"
    /\ Becomes(c, "confirmed")
    /\ UNCHANGED <<configured, wire, reply, chat, inbox, crashes>>

\* Variant: without a timeout.
NotConfirmedReplied(c) ==
    /\ task[c] = "telegram"
    /\ reply[c] \notin {"none", "ok"}
    /\ Becomes(c, "email")
    /\ UNCHANGED <<configured, wire, reply, chat, inbox, crashes>>

\* A timeout, which any answer may miss, or an answer other than ok.
NotConfirmed(c) ==
    /\ task[c] = "telegram"
    /\ Becomes(c, "email")
    /\ UNCHANGED <<configured, wire, reply, chat, inbox, crashes>>

-----------------------------------------------------------------------------
(* The fallback.                                                           *)

Email(c, sent, state) ==
    /\ task[c] = "email"
    /\ sent => "smtp" \in configured
    /\ inbox' = IF sent THEN inbox \cup {c} ELSE inbox
    /\ Becomes(c, state)
    /\ UNCHANGED <<configured, wire, reply, chat, crashes>>

EmailSent(c) == Email(c, TRUE, "emailed")

\* Not configured, unreachable or refused.
EmailFails(c) == Email(c, FALSE, "failed")

\* The server has taken the message when the session breaks.
EmailUnconfirmed(c) == Email(c, TRUE, "failed")

\* Tasks are kept in memory.
Crash ==
    /\ crashes < MaxCrashes
    /\ crashes' = crashes + 1
    /\ task' = [c \in Codes |-> IF task[c] \in Active THEN "lost" ELSE task[c]]
    /\ UNCHANGED <<configured, wire, reply, chat, inbox>>

TaskStep(c) ==
    \/ TelegramUnavailable(c) \/ TelegramPost(c)
    \/ Confirm(c) \/ NotConfirmed(c)
    \/ EmailSent(c) \/ EmailFails(c) \/ EmailUnconfirmed(c)

TelegramStep(c) == TelegramTakes(c) \/ TelegramRefuses(c)

Next ==
    \/ \E c \in Codes : Schedule(c) \/ TaskStep(c) \/ TelegramStep(c)
    \/ Crash

\* A thread of the pool goes on with its task.
Fairness == \A c \in Codes : WF_vars(TaskStep(c))

Spec == Init /\ [][Next]_vars

FairSpec == Spec /\ Fairness

-----------------------------------------------------------------------------
(* Properties.                                                             *)

TypeOK ==
    /\ configured \subseteq {"telegram", "smtp"}
    /\ task \in [Codes -> {"none"} \cup Active \cup Ended]
    /\ wire \subseteq Codes
    /\ reply \in [Codes -> {"none", "ok", "odd", "refused"}]
    /\ chat \in Seq(Codes)
    /\ inbox \subseteq Codes
    /\ crashes \in 0 .. MaxCrashes

Read == ToSet(chat) \cup inbox

\* A task that reports success is right about the channel, and one that reports
\* Telegram sent no e-mail (dispatch.py:4-7, telegram.py:43-45).
SuccessIsTrue ==
    \A c \in Codes :
        /\ task[c] = "confirmed" => c \in ToSet(chat) /\ c \notin inbox
        /\ task[c] = "emailed" => c \in inbox

Abstract == INSTANCE Courier
    WITH posted  <- {c \in Codes : task[c] # "none"},
         outbox  <- {c \in Codes \ Read : task[c] \in Active \/ c \in wire},
         mailbox <- Read

\* Two channels, timeouts and crashes are one delivery that may fail, as
\* Registration and LoginSession have it (auth.py:123-128, 264): what is given
\* up does not arrive later, and only committed codes are read.
ImplementsCourier == Abstract!Spec

\* Every task comes to an end, whatever Telegram and the mail server do
\* (telegram.py:71, email.py:45).
EveryTaskEnds == \A c \in Codes : task[c] = "queued" ~> task[c] \in Ended

\* dispatch.py:4-7: by Telegram or by e-mail, "never both".
NeverBoth == \A c \in inbox : c \notin ToSet(chat)

\* dispatch.py:72: "delivery FAILED on both Telegram and email".
FailureIsTrue == \A c \in Codes : task[c] = "failed" => c \notin Read

\* auth.py:92-93: the newest code is the valid one; so it should be the last in
\* the chat, for an administrator who relays what came last.
LastInChatIsNewest == \A i \in DOMAIN chat : chat[i] <= Last(chat)
=============================================================================
