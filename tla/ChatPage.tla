----------------------------- MODULE ChatPage -----------------------------
(***************************************************************************)
(* The chat page (dashboard/components/ChatPageClient.tsx) and the tool    *)
(* loop that answers it (internal/chat).  The page has one thread; stopping *)
(* a question or starting a new chat does not abort the call under way, so *)
(* that answers come late.  Leaving the page forgets all but the saved     *)
(* thread.  A question is its number; what the tools return is left out.   *)
(***************************************************************************)
EXTENDS Integers, Sequences, SequencesExt

CONSTANTS
    MaxToolRounds,     \* maxToolRounds (6)
    MaxSends,          \* bound: questions
    MaxVisits          \* bound: times the page is mounted

ASSUME ChatAssumption ==
    MaxToolRounds \in Nat \ {0} /\ MaxSends \in Nat \ {0} /\ MaxVisits \in Nat \ {0}

VARIABLES
    thread,      \* messages
    pending,
    activeReq,   \* 0 for null
    reqCounter,
    saved,       \* the thread in sessionStorage
    visits,      \* how often the page has been mounted
    mounted,
    calls,       \* POST /api/chat under way
    given,       \* history: the context sent with each question
    left         \* history: questions that were pending when the user left
pageVars == <<thread, saved, pending, activeReq, reqCounter, visits, mounted>>
chatVars == <<pageVars, calls, given, left>>

Question(n) == [role |-> "user", n |-> n, stopped |-> FALSE]
Answer(n) == [role |-> "assistant", n |-> n, stopped |-> FALSE]

ChatInit ==
    /\ thread = <<>> /\ saved = <<>> /\ pending = FALSE
    /\ activeReq = 0 /\ reqCounter = 0 /\ visits = 1 /\ mounted = TRUE
    /\ calls = {} /\ given = <<>> /\ left = {}

-----------------------------------------------------------------------------
(* The page.                                                               *)

\* Every change of the thread is saved.
Show(entries) == thread' = entries /\ saved' = entries

\* The conversation for the model: without what the user stopped.
WholeContext(entries) == entries
Conversation(entries) ==
    LET kept[i \in 0..Len(entries)] ==
            IF i = 0 THEN <<>>
            ELSE IF entries[i].stopped THEN kept[i - 1]
            ELSE Append(kept[i - 1], entries[i])
    IN kept
Context(entries) == Conversation(entries)[Len(entries)]

Send ==
    LET n == Len(given) + 1
        id == reqCounter + 1
    IN /\ mounted /\ ~pending /\ n <= MaxSends
       /\ Show(Append(thread, Question(n)))
       /\ reqCounter' = id /\ activeReq' = id /\ pending' = TRUE
       /\ given' = Append(given, Append(Context(thread), Question(n)))
       /\ calls' = calls \cup {[id |-> id, n |-> n, round |-> 0, result |-> "none"]}
       /\ UNCHANGED <<visits, mounted, left>>

\* Only the call the page still waits for counts.
AnyCall(c) == TRUE
Wanted(c) == activeReq = c.id

ReplyArrives(c) ==
    /\ c.result = "reply"
    /\ calls' = calls \ {c}
    /\ IF Wanted(c) THEN Show(Append(thread, Answer(c.n))) /\ pending' = FALSE
                    ELSE UNCHANGED <<thread, saved, pending>>
    /\ UNCHANGED <<activeReq, reqCounter, visits, mounted, given, left>>

\* An error status, or a connection that breaks at any time: the unanswered
\* question is rolled back out of the thread.
KeepQuestion(entries) == entries
RollBack(entries) == Front(entries)

FailureArrives(c) ==
    /\ calls' = calls \ {c}
    /\ IF Wanted(c) THEN Show(RollBack(thread)) /\ pending' = FALSE
                    ELSE UNCHANGED <<thread, saved, pending>>
    /\ UNCHANGED <<activeReq, reqCounter, visits, mounted, given, left>>

\* The button is there while a question is pending, which is then the last.
Stop ==
    /\ mounted /\ pending
    /\ activeReq' = 0 /\ pending' = FALSE
    /\ Show([thread EXCEPT ![Len(thread)].stopped = (@ \/ thread[Len(thread)].role = "user")])
    /\ UNCHANGED <<reqCounter, visits, mounted, calls, given, left>>

NewChat ==
    /\ mounted /\ thread # <<>>
    /\ activeReq' = 0 /\ pending' = FALSE
    /\ Show(<<>>)
    /\ UNCHANGED <<reqCounter, visits, mounted, calls, given, left>>

\* Another page or a refresh: the state is gone, and with it all use for the
\* results of the calls under way.
Leave ==
    /\ mounted /\ visits < MaxVisits
    /\ mounted' = FALSE
    /\ thread' = <<>> /\ pending' = FALSE /\ activeReq' = 0 /\ reqCounter' = 0
    /\ calls' = {}
    /\ left' = IF pending THEN left \cup {Len(given)} ELSE left
    /\ UNCHANGED <<saved, visits, given>>

Mount ==
    /\ ~mounted
    /\ mounted' = TRUE /\ visits' = visits + 1
    /\ thread' = saved
    /\ UNCHANGED <<saved, pending, activeReq, reqCounter, calls, given, left>>

-----------------------------------------------------------------------------
(* The answer: rounds of completions, each of which may ask for tools.     *)

Becomes(c, d) ==
    /\ c.result = "none"
    /\ calls' = (calls \ {c}) \cup {d}
    /\ UNCHANGED <<pageVars, given, left>>

ModelAnswers(c) == Becomes(c, [c EXCEPT !.result = "reply"])

\* A completion fails or has no choices, the client's timeout ends it, or the
\* server has no model.
ModelFails(c) == Becomes(c, [c EXCEPT !.result = "error"])

\* The tools run, whether they succeed or not, and the loop goes on as long as
\* there are rounds.
RoundAgain(r) == (r + 1) % MaxToolRounds
NextRound(r) == r + 1

ModelCallsTools(c) ==
    LET r == NextRound(c.round)
    IN Becomes(c, [c EXCEPT !.round = r,
                            !.result = IF r < MaxToolRounds THEN "none" ELSE "error"])

Serve == \E c \in calls : ModelAnswers(c) \/ ModelFails(c) \/ ModelCallsTools(c)
Arrive == \E c \in calls : ReplyArrives(c) \/ (c.result = "error" /\ FailureArrives(c))

ChatNext ==
    \/ Send \/ Stop \/ NewChat \/ Leave \/ Mount
    \/ \E c \in calls : ReplyArrives(c) \/ FailureArrives(c)
    \/ Serve

ChatSpec == ChatInit /\ [][ChatNext]_chatVars

-----------------------------------------------------------------------------
(* Properties.                                                             *)

\* Every answer in the thread was given to exactly the conversation that stands
\* above it: late answers to stopped questions, to questions of an earlier
\* chat or of an earlier visit do not get in.
AnswersFitThread ==
    \A i \in DOMAIN thread :
        thread[i].role = "assistant" =>
            given[thread[i].n] = Context(SubSeq(thread, 1, i - 1))

Followed(entries, i) == i < Len(entries) /\ entries[i + 1] = Answer(entries[i].n)

\* Every question in the thread is answered by what follows it, marked as
\* stopped, pending, or was pending when the user left the page: a failed
\* question leaves no trace, and a failure takes no other entry with it.
QuestionsAccounted ==
    \A i \in DOMAIN thread :
        thread[i].role = "user" =>
            \/ Followed(thread, i) \/ thread[i].stopped \/ thread[i].n \in left
            \/ pending /\ i = Len(thread)

\* What is kept for it.  The page waits for at most one call, which answers the
\* question at the end of the thread; no two calls of a visit have one id.
Entries == [role : {"user", "assistant"}, n : Nat, stopped : BOOLEAN]

CallsInv ==
    /\ calls \subseteq [id : 1..reqCounter, n : 1..Len(given), round : Nat,
                        result : {"none", "reply", "error"}]
    /\ \A c, d \in calls : c.id = d.id => c = d
    /\ \A c \in calls : Wanted(c) => pending /\ c.n = Len(given)

PendingInv ==
    pending => /\ mounted /\ activeReq # 0
               /\ thread # <<>> /\ thread[Len(thread)] = Question(Len(given))

\* The saved thread is the one on the page, or what the user left behind.
SavedInv ==
    /\ mounted => saved = thread
    /\ ~mounted => thread = <<>> /\ ~pending /\ calls = {}
    /\ \A i \in 1..Len(saved) :
          saved[i].role = "user" =>
              \/ Followed(saved, i) \/ saved[i].stopped \/ saved[i].n \in left
              \/ pending /\ i = Len(saved)

ChatInv ==
    /\ thread \in Seq(Entries) /\ saved \in Seq(Entries)
    /\ pending \in BOOLEAN /\ mounted \in BOOLEAN
    /\ reqCounter \in Nat /\ activeReq \in 0..reqCounter
    /\ given \in Seq(ToSet(given))
    /\ CallsInv /\ PendingInv /\ SavedInv

\* "a question the user abandoned never becomes part of the conversation the
\* model sees": in what is sent with a new question, all earlier questions
\* have their answers, with the exception of one the user left the page on.
ContextIsConversation ==
    \A n \in DOMAIN given : \A i \in 1..(Len(given[n]) - 1) :
        given[n][i].role = "user" => Followed(given[n], i) \/ given[n][i].n \in left

\* What is kept for the two properties about conversations: a pending question
\* was sent with the conversation that now stands above it, and so was every
\* question that has its answer in the saved thread.
ConversationInv ==
    /\ \A n \in 1..Len(given) : given[n] \in Seq(Entries)
    /\ pending => given[Len(given)] = Context(thread)
    /\ \A i \in 1..Len(saved) :
          saved[i].role = "assistant" =>
              /\ saved[i].n \in 1..Len(given)
              /\ given[saved[i].n] = Conversation(saved)[i - 1]
    /\ ContextIsConversation

\* The page does not wait for ever, however often the model asks for tools.
PendingEnds == pending ~> ~pending
=============================================================================
