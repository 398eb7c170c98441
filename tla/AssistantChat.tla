---------------------------- MODULE AssistantChat ----------------------------
(***************************************************************************)
(* AiAssistantService.chat and the memory behind it: conversations, their  *)
(* messages, the embeddings that make old turns searchable, the edits the  *)
(* model proposes while it answers.                                        *)
(*                                                                         *)
(* A talker is one request in flight; each action is one statement, or one *)
(* call of the provider, with the JavaScript up to the next await.  A      *)
(* message is known by its conversation and its place in the order of the  *)
(* inserts; its createdAt is the moment its insert was sent, so of two     *)
(* turns that overlap the later place may have the earlier moment, or the  *)
(* same millisecond.  What the messages say, and how similar two of them   *)
(* are, is left open.  How a proposal is decided is DraftLifecycle's; how  *)
(* a client reads conversations and messages page by page is Catalogue's.  *)
(***************************************************************************)
EXTENDS Integers, Sequences, FiniteSets, SequencesExt

CONSTANTS
    Talkers,         \* requests in flight at the same time
    Candidates,      \* users
    Conversations,   \* identifiers of ai_conversations rows
    HistoryTake,     \* take of the history query
    NewestSkipped,   \* newest messages the memory query leaves out
    TopK,            \* turns the memory query returns at most
    ToolCalls,       \* bound of the instance: tool calls of one answer
    ClockSteps,      \* how far the clock may go between two statements
    MaxMoment,       \* bound of the instance: the last moment of the clock
    ChatCalls,       \* what clients and the environment do in this instance
    NOBODY           \* null

AllChatCalls == {"chat", "silence", "statementFault", "answerFault", "searchFault",
                 "indexFault", "crash"}

ASSUME ChatCallsAssumption == ChatCalls \subseteq AllChatCalls
ASSUME ChatBoundsAssumption == {HistoryTake, NewestSkipped, TopK} \subseteq Nat \ {0}
ASSUME MomentsAssumption == ClockSteps \subseteq Nat /\ ToolCalls \in Nat
ASSUME NobodyAssumption == NOBODY \notin Candidates \cup Conversations

VARIABLES
    owners,    \* ai_conversations: the user of each, NOBODY before it is created
    threads,   \* ai_messages of each conversation, in the order they were inserted
    memory,    \* ai_message_embeddings: conversation, place of the message, user
    staged,    \* ai_edit_proposals the chat created: user and conversation
    jobs,      \* turns handed to indexTurn that it has not finished
    talk,      \* the locals of each request in flight
    now,       \* the clock
    cutOff,    \* history: turns that broke off, with the proposals they had made
    unsure     \* history: proposals that were stored though their insert failed

chatVars == <<owners, threads, memory, staged, jobs, talk, now, cutOff, unsure>>

-----------------------------------------------------------------------------
(* Rows and locals.                                                        *)

Question(at) == [role |-> "user", answers |-> 0, sources |-> {}, at |-> at]
Reply(place, sources, at) ==
    [role |-> "assistant", answers |-> place, sources |-> sources, at |-> at]
Proposals == [user : Candidates, conversation : Conversations, place : Nat, call : Nat]
TurnAt(c, i) == [conversation |-> c, place |-> i]

Nothing == [history |-> {}, recalled |-> {}]
Silent == [pc |-> "idle", user |-> NOBODY, conversation |-> NOBODY, prompt |-> Nothing,
           at |-> 0, place |-> 0, empty |-> FALSE, calls |-> 0, sources |-> {}, answered |-> 0]

TalkPC == {"idle", "open", "history", "recall", "question", "provider", "tool", "reply",
           "touch"}

Talk == [pc : TalkPC, user : {NOBODY} \cup Candidates,
         conversation : {NOBODY} \cup Conversations,
         prompt : [history : SUBSET Nat, recalled : SUBSET Nat], at : Nat, place : Nat,
         empty : BOOLEAN, calls : Nat, sources : SUBSET Proposals, answered : Nat]

Is(w, pc) == talk[w].pc = pc
Close(w) == talk' = [talk EXCEPT ![w] = Silent]
Thread(w) == threads[talk[w].conversation]

Stores(w, message) ==
    threads' = [threads EXCEPT ![talk[w].conversation] = Append(@, message)]

(* The moment at which the next statement may be sent. *)
Moments == {now + d : d \in ClockSteps} \cap (0 .. MaxMoment)

AtMost(n, k) == IF n < k THEN n ELSE k

ChatInit ==
    /\ owners = [c \in Conversations |-> NOBODY]
    /\ threads = [c \in Conversations |-> <<>>]
    /\ memory = {} /\ staged = {} /\ jobs = {} /\ cutOff = {} /\ unsure = {}
    /\ talk = [w \in Talkers |-> Silent] /\ now = 0

-----------------------------------------------------------------------------
(* The turn.                                                               *)

(* Mutant: the conversation is looked up by its id alone. *)
FoundAnyones(u, c) == owners[c] # NOBODY

(* findFirst by id and userId *)
Found(u, c) == owners[c] = u

(* An id that is not the user's own starts a conversation, silently. *)
Chat(w, u, c) ==
    /\ Is(w, "idle") /\ "chat" \in ChatCalls
    /\ LET found == c # NOBODY /\ Found(u, c) IN
       talk' = [talk EXCEPT ![w] = [Silent EXCEPT
                    !.pc = IF found THEN "history" ELSE "open",
                    !.user = u, !.conversation = IF found THEN c ELSE NOBODY]]
    /\ UNCHANGED <<owners, threads, memory, staged, jobs, now, cutOff, unsure>>

OpenConversation(w) ==
    /\ Is(w, "open")
    /\ \E c \in Conversations :
          /\ owners[c] = NOBODY
          /\ owners' = [owners EXCEPT ![c] = talk[w].user]
          /\ talk' = [talk EXCEPT ![w].pc = "history", ![w].conversation = c]
    /\ UNCHANGED <<threads, memory, staged, jobs, now, cutOff, unsure>>

(* The first n rows of a query that orders by createdAt, or the last n:     *)
(* rows of one moment come in any order.                                   *)
Oldest(s, n) ==
    {some \in SUBSET DOMAIN s :
        /\ Cardinality(some) = AtMost(Len(s), n)
        /\ \A i \in some, j \in DOMAIN s \ some : s[i].at <= s[j].at}
Newest(s, n) ==
    {some \in SUBSET DOMAIN s :
        /\ Cardinality(some) = AtMost(Len(s), n)
        /\ \A i \in some, j \in DOMAIN s \ some : s[i].at >= s[j].at}

(* orderBy createdAt asc, take 10 *)
ReadHistory(w) ==
    /\ Is(w, "history")
    /\ \E first \in Oldest(Thread(w), HistoryTake) :
          talk' = [talk EXCEPT ![w].pc = "recall", ![w].prompt.history = first]
    /\ UNCHANGED <<owners, threads, memory, staged, jobs, now, cutOff, unsure>>

(* findRelevantTurns searches the user's embeddings of this conversation,   *)
(* the newest messages left out.                                           *)
Searchable(w, newest) ==
    {i \in DOMAIN Thread(w) \ newest :
        [conversation |-> talk[w].conversation, place |-> i, user |-> talk[w].user] \in memory}

(* The TopK turns most similar to the message, or none when the search      *)
(* fails; getUserContext reads the profile and answers '' when it fails.   *)
(* Then the question is sent to the database.                              *)
Recall(w) ==
    /\ Is(w, "recall")
    /\ \E newest \in Newest(Thread(w), NewestSkipped) :
       \E found \in SUBSET Searchable(w, newest), n \in Moments :
          /\ \/ Cardinality(found) = AtMost(Cardinality(Searchable(w, newest)), TopK)
             \/ "searchFault" \in ChatCalls /\ found = {}
          /\ talk' = [talk EXCEPT ![w].pc = "question", ![w].prompt.recalled = found, ![w].at = n]
          /\ now' = n
    /\ UNCHANGED <<owners, threads, memory, staged, jobs, cutOff, unsure>>

(* Mutant: the message is indexed as soon as it is stored. *)
SaveQuestionIndexed(w) ==
    /\ Is(w, "question")
    /\ Stores(w, Question(talk[w].at))
    /\ talk' = [talk EXCEPT ![w].pc = "provider", ![w].place = Len(Thread(w)) + 1]
    /\ jobs' = jobs \cup {TurnAt(talk[w].conversation, Len(Thread(w)) + 1)}
    /\ UNCHANGED <<owners, memory, staged, now, cutOff, unsure>>

SaveQuestion(w) ==
    /\ Is(w, "question")
    /\ Stores(w, Question(talk[w].at))
    /\ talk' = [talk EXCEPT ![w].pc = "provider", ![w].place = Len(Thread(w)) + 1]
    /\ UNCHANGED <<owners, memory, staged, jobs, now, cutOff, unsure>>

(* GeminiProvider.chatWithTools never throws: without a key, after an error *)
(* or after 15 seconds it answers with a text of its own and no tool call. *)
(* A model may answer with any number of tool calls, and with nothing else: *)
(* then reply is ''.                                                       *)
AskProvider(w) ==
    /\ Is(w, "provider")
    /\ \E calls \in 0 .. ToolCalls, n \in Moments,
          empty \in {FALSE} \cup (IF "silence" \in ChatCalls THEN {TRUE} ELSE {}) :
          /\ talk' = [talk EXCEPT ![w].pc = IF calls = 0 THEN "reply" ELSE "tool",
                                  ![w].prompt = Nothing, ![w].at = n,
                                  ![w].calls = calls, ![w].empty = empty]
          /\ now' = n
    /\ UNCHANGED <<owners, threads, memory, staged, jobs, cutOff, unsure>>

-----------------------------------------------------------------------------
(* The tool calls, the reply and what follows it.                          *)

Proposal(w) == [user |-> talk[w].user, conversation |-> talk[w].conversation,
                place |-> talk[w].place, call |-> talk[w].calls]

(* One call is done with; the ones that made a proposal are listed.         *)
NextCall(w, listed) ==
    \E n \in Moments :
       /\ talk' = [talk EXCEPT ![w].calls = @ - 1, ![w].sources = @ \cup listed, ![w].at = n,
                               ![w].pc = IF talk[w].calls = 1 THEN "reply" ELSE "tool"]
       /\ now' = n

(* Mutant: the proposal is made and not pushed to the list. *)
RunToolCallUnlisted(w) ==
    /\ Is(w, "tool") /\ NextCall(w, {})
    /\ staged' = staged \cup {Proposal(w)}
    /\ UNCHANGED <<owners, threads, memory, jobs, cutOff, unsure>>

(* Mutant: the proposal is pushed to the list before it is made. *)
RunToolCallListed(w) ==
    /\ Is(w, "tool") /\ NextCall(w, {Proposal(w)})
    /\ staged' \in {staged, staged \cup {Proposal(w)}}
    /\ UNCHANGED <<owners, threads, memory, jobs, cutOff, unsure>>

(* A call that lacks an argument, names a page that is not the user's or    *)
(* fails is logged and dropped, the turn goes on; the others make a        *)
(* proposal.  An insert that fails may have been carried out: the proposal *)
(* is stored, and the list, which is pushed to afterwards, lacks it.       *)
RunToolCall(w) ==
    /\ Is(w, "tool")
    /\ \E made \in SUBSET {Proposal(w)} : \E listed \in SUBSET made :
          /\ listed = made \/ "answerFault" \in ChatCalls
          /\ NextCall(w, listed)
          /\ staged' = staged \cup made
          /\ unsure' = unsure \cup (made \ listed)
    /\ UNCHANGED <<owners, threads, memory, jobs, cutOff>>

SaveReply(w) ==
    /\ Is(w, "reply")
    /\ Stores(w, Reply(talk[w].place, talk[w].sources, talk[w].at))
    /\ talk' = [talk EXCEPT ![w].pc = "touch", ![w].answered = Len(Thread(w)) + 1]
    /\ UNCHANGED <<owners, memory, staged, jobs, now, cutOff, unsure>>

(* updatedAt is set (the order of Catalogue's list of conversations), the   *)
(* answer goes out, and the two messages of the turn are handed to         *)
(* indexTurn, which nobody waits for.                                      *)
FinishTurn(w) ==
    /\ Is(w, "touch")
    /\ jobs' = jobs \cup {TurnAt(talk[w].conversation, talk[w].place)}
                     \cup (IF talk[w].empty THEN {}
                           ELSE {TurnAt(talk[w].conversation, talk[w].answered)})
    /\ Close(w)
    /\ UNCHANGED <<owners, threads, memory, staged, now, cutOff, unsure>>

(* ON CONFLICT DO NOTHING; a failure is logged and the turn never indexed. *)
IndexTurn(t) ==
    /\ t \in jobs
    /\ jobs' = jobs \ {t}
    /\ \/ memory' = memory \cup {[conversation |-> t.conversation, place |-> t.place,
                                   user |-> owners[t.conversation]]}
       \/ "indexFault" \in ChatCalls /\ UNCHANGED memory
    /\ UNCHANGED <<owners, threads, staged, talk, now, cutOff, unsure>>

-----------------------------------------------------------------------------
(* Faults.                                                                 *)

Broken(w, place) == [conversation |-> talk[w].conversation, place |-> place,
                     made |-> talk[w].sources]
CutOff(w) == IF talk[w].place # 0 /\ ~Is(w, "touch") THEN {Broken(w, talk[w].place)} ELSE {}

(* A statement fails: the request answers 500, what it wrote stays.  A      *)
(* failure of the search, of the provider or of a tool call is caught.     *)
StatementFails(w) ==
    /\ "statementFault" \in ChatCalls
    /\ talk[w].pc \in {"open", "history", "question", "reply", "touch"}
    /\ cutOff' = cutOff \cup CutOff(w)
    /\ Close(w)
    /\ UNCHANGED <<owners, threads, memory, staged, jobs, now, unsure>>

(* A statement is carried out and its answer is lost: the request answers   *)
(* 500 as well.                                                            *)
AnswerLost(w) ==
    /\ "answerFault" \in ChatCalls
    /\ \/ /\ Is(w, "open")
          /\ \E c \in Conversations :
                owners[c] = NOBODY /\ owners' = [owners EXCEPT ![c] = talk[w].user]
          /\ UNCHANGED <<threads, cutOff>>
       \/ /\ Is(w, "question") /\ Stores(w, Question(talk[w].at))
          /\ cutOff' = cutOff \cup {Broken(w, Len(Thread(w)) + 1)}
          /\ UNCHANGED owners
       \/ /\ Is(w, "reply") /\ Stores(w, Reply(talk[w].place, talk[w].sources, talk[w].at))
          /\ cutOff' = cutOff \cup CutOff(w)
          /\ UNCHANGED owners
    /\ Close(w)
    /\ UNCHANGED <<memory, staged, jobs, now, unsure>>

(* The process dies with its requests and its background work. *)
ChatCrash ==
    /\ "crash" \in ChatCalls
    /\ jobs # {} \/ \E w \in Talkers : ~Is(w, "idle")
    /\ cutOff' = cutOff \cup UNION {CutOff(w) : w \in Talkers}
    /\ talk' = [w \in Talkers |-> Silent]
    /\ jobs' = {}
    /\ UNCHANGED <<owners, threads, memory, staged, now, unsure>>

-----------------------------------------------------------------------------

TalkStep(w) == \/ OpenConversation(w) \/ ReadHistory(w) \/ Recall(w) \/ SaveQuestion(w)
               \/ AskProvider(w) \/ RunToolCall(w) \/ SaveReply(w) \/ FinishTurn(w)
               \/ StatementFails(w) \/ AnswerLost(w)

ChatStep ==
    \/ \E w \in Talkers : TalkStep(w)
    \/ \E t \in jobs : IndexTurn(t)
    \/ ChatCrash

ChatArrive == \E w \in Talkers, u \in Candidates, c \in {NOBODY} \cup Conversations :
                  Chat(w, u, c)

ChatNext == ChatArrive \/ ChatStep
ChatSpec == ChatInit /\ [][ChatNext]_chatVars

-----------------------------------------------------------------------------
(* Properties.                                                             *)

(* Types; a reply names only proposals that are stored.                     *)
ChatTypeOK ==
    /\ owners \in [Conversations -> {NOBODY} \cup Candidates]
    /\ \A c \in Conversations : threads[c] \in
          Seq([role : {"user", "assistant"}, answers : Nat, sources : SUBSET staged, at : Nat])
    /\ memory \subseteq [conversation : Conversations, place : Nat, user : Candidates]
    /\ staged \subseteq Proposals
    /\ jobs \subseteq [conversation : Conversations, place : Nat]
    /\ talk \in [Talkers -> Talk]
    /\ now \in Nat /\ unsure \subseteq staged

(* What one user wrote never reaches another (FR-005): a request works in a  *)
(* conversation of its own user, the embeddings the search filters by user  *)
(* carry the user of their conversation, and so do the proposals.          *)
TenantIsolation ==
    /\ \A w \in Talkers : talk[w].conversation # NOBODY =>
                              owners[talk[w].conversation] = talk[w].user
    /\ \A r \in memory \cup staged : r.user = owners[r.conversation]

InFlight(c, i) == \E w \in Talkers : talk[w].conversation = c /\ talk[w].place = i
Answered(c, i) == \E j \in DOMAIN threads[c] : j > i /\ threads[c][j].answers = i

(* Whatever the model does, silence, tool calls or no answer in time, a turn *)
(* leaves no loose end unless its request is in flight or broke off: a      *)
(* question without a reply, or a proposed edit that no reply names.  Of    *)
(* the edits there is one more exception, a turn that ends well though the *)
(* insert of a proposal failed: it may have been carried out.              *)
BrokenTurnHasCause ==
    /\ \A c \in Conversations : \A i \in DOMAIN threads[c] :
          threads[c][i].role = "user" /\ ~Answered(c, i) =>
              InFlight(c, i) \/ \E t \in cutOff : t.conversation = c /\ t.place = i
    /\ \A p \in staged :
          \/ \E j \in DOMAIN threads[p.conversation] : p \in threads[p.conversation][j].sources
          \/ \E w \in Talkers : p \in talk[w].sources
          \/ \E t \in cutOff : p \in t.made
          \/ p \in unsure

(* Long-term memory holds turns, not loose ends: a message is searchable    *)
(* only when the turn it belongs to has its reply.                         *)
MemoryOfAnsweredTurns ==
    \A e \in memory :
        /\ e.place \in DOMAIN threads[e.conversation]
        /\ LET m == threads[e.conversation][e.place] IN
           m.role = "user" => Answered(e.conversation, e.place)

(* specs/011-ai-assistant-rag/spec.md:76: the context holds the relevant    *)
(* snippets "along with the immediate 3-4 recent turns"; research.md:84    *)
(* says the last 3.  Checked here of the newest messages, one request.     *)
RecentTurnsInPrompt ==
    \A w \in Talkers : Is(w, "provider") =>
        \A i \in (talk[w].place - NewestSkipped) .. (talk[w].place - 1) :
            i >= 1 => i \in talk[w].prompt.history \cup talk[w].prompt.recalled
=============================================================================
