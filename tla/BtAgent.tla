------------------------------- MODULE BtAgent -------------------------------
(***************************************************************************)
(* The pairing agent of the BluetoothManager extension.  BlueZ asks it for *)
(* a PIN code or a passkey, or to have a passkey confirmed or displayed;   *)
(* the agent keeps the D-Bus message under a tag (m_delayedReplies), a     *)
(* script shows the page a prompt with that tag, and the page's answer     *)
(* finds the message again by the tag.                                     *)
(*                                                                         *)
(* BlueZ, the user and the web engine are external: requests come and are  *)
(* cancelled at any time, prompts are answered late, twice or never, and a *)
(* page that is loaded again has lost the prompts it showed.               *)
(***************************************************************************)
EXTENDS Naturals, Sequences, FiniteSets

CONSTANTS MaxRequests,  \* bound: requests BlueZ makes
          MaxPosted     \* bound: prompts, and answers, under way

ASSUME AgentAssumption == MaxRequests \in Nat /\ MaxPosted \in Nat

VARIABLES
  requests,   \* kinds of the requests BlueZ has made so far
  replies,    \* what BlueZ was sent for each of them, in order
  m_tag,      \* the tag of the next request
  delayed,    \* m_delayedReplies: [tag |-> , request |-> ]
  prompts,    \* prompts in scripts not yet run
  shown,      \* prompts the page shows
  answers,    \* answers of the page not yet handled
  available,  \* mTechnology is not null
  given       \* history: requests prompted for, and the requests their answers reached

agentVars == <<requests, replies, m_tag, delayed, prompts, shown, answers, available, given>>

Kinds      == {"pincode", "passkey", "confirmation", "display"}
RequestIds == 1..MaxRequests
Tags       == 1..MaxRequests + 1
Prompts    == [tag : Tags, for : RequestIds]
Answers    == [tag : Tags, for : RequestIds, agrees : BOOLEAN]
Replies    == {"value", "empty", "Canceled", "Rejected"}

AgentTypeOK ==
    /\ requests \in Seq(Kinds) /\ Len(requests) <= MaxRequests
    /\ replies \in [RequestIds -> Seq(Replies)]
    /\ m_tag \in Tags
    /\ delayed \subseteq [tag : 1..m_tag - 1, request : 1..Len(requests)]
    /\ prompts \in Seq(Prompts) /\ Len(prompts) <= MaxPosted
    /\ shown \subseteq Prompts
    /\ answers \in Seq(Answers) /\ Len(answers) <= MaxPosted
    /\ available \in BOOLEAN
    /\ given \subseteq [prompted : RequestIds, reached : RequestIds]

AgentInit ==
    /\ requests = <<>>
    /\ replies = [r \in RequestIds |-> <<>>]
    /\ m_tag = 1
    /\ delayed = {}
    /\ prompts = <<>> /\ shown = {} /\ answers = <<>>
    /\ available \in BOOLEAN
    /\ given = {}

-----------------------------------------------------------------------------
(* Requests of BlueZ. *)

SameTag == m_tag
NextTag == m_tag + 1

NewRequest(kind) ==
    /\ Len(requests) < MaxRequests
    /\ requests' = Append(requests, kind)

\* RequestPinCode, RequestPasskey, RequestConfirmation, DisplayPasskey, for a
\* device the model knows.
AcceptRequest(kind) ==
    /\ NewRequest(kind)
    /\ Len(prompts) < MaxPosted
    /\ m_tag' = NextTag
    /\ LET r == Len(requests') IN
       /\ delayed' = {d \in delayed : d.tag # m_tag} \cup {[tag |-> m_tag, request |-> r]}
       /\ prompts' = Append(prompts, [tag |-> m_tag, for |-> r])
    /\ UNCHANGED <<replies, shown, answers, available, given>>

\* What the methods return, empty where the return type is void.
Returned(kind) == IF kind \in {"pincode", "passkey"} THEN "value" ELSE "empty"

\* The same for a device it does not know.  reject sends an error and leaves the
\* reply undelayed, so QtDBus sends another one when the method returns.
RejectRequest(kind) ==
    /\ NewRequest(kind)
    /\ replies' = [replies EXCEPT ![Len(requests')] = @ \o <<"Rejected", Returned(kind)>>]
    /\ UNCHANGED <<m_tag, delayed, prompts, shown, answers, available, given>>

-----------------------------------------------------------------------------
(* The page. *)

\* A prompt arrives; a page without a handler for it drops it.
Prompt ==
    /\ prompts # <<>>
    /\ prompts' = Tail(prompts)
    /\ shown' \in {shown, shown \cup {Head(prompts)}}
    /\ UNCHANGED <<requests, replies, m_tag, delayed, answers, available, given>>

\* The user agrees or declines; the prompt may stay and be answered again.
AnswerPrompt ==
    /\ Len(answers) < MaxPosted
    /\ \E p \in shown, agrees \in BOOLEAN :
         /\ answers' = Append(answers, [tag |-> p.tag, for |-> p.for, agrees |-> agrees])
         /\ shown' \in {shown, shown \ {p}}
    /\ UNCHANGED <<requests, replies, m_tag, delayed, prompts, available, given>>

ReloadPage ==
    /\ shown' = {}
    /\ prompts' \in {prompts, <<>>}
    /\ UNCHANGED <<requests, replies, m_tag, delayed, answers, available, given>>

-----------------------------------------------------------------------------
(* Answers. *)

\* What BlueZ is sent: displayPasskeyCallback takes no decision of the user.
ReplyTo(kind, agrees) ==
    IF ~agrees \/ kind = "display" THEN "Canceled"
    ELSE IF kind = "confirmation" THEN "empty" ELSE "value"

KeepAll(t) == delayed
Forget(t)  == {d \in delayed : d.tag # t}

\* providePinCode, providePasskey, confirmPasskey, displayPasskeyCallback, of
\* the extension and then of the agent.
HandleAnswer ==
    /\ answers # <<>>
    /\ answers' = Tail(answers)
    /\ LET a == Head(answers)
           found == {d \in delayed : d.tag = a.tag}
       IN  IF available /\ found # {}
           THEN \E d \in found :
                  /\ replies' = [replies EXCEPT ![d.request] =
                                   Append(@, ReplyTo(requests[d.request], a.agrees))]
                  /\ delayed' = Forget(a.tag)
                  /\ given' = given \cup {[prompted |-> a.for, reached |-> d.request]}
           ELSE UNCHANGED <<replies, delayed, given>>
    /\ UNCHANGED <<requests, m_tag, prompts, shown, available>>

\* technologiesChanged.
TechnologyChanges ==
    /\ available' = ~available
    /\ UNCHANGED <<requests, replies, m_tag, delayed, prompts, shown, answers, given>>

AgentNext ==
    \/ \E kind \in Kinds : AcceptRequest(kind) \/ RejectRequest(kind)
    \/ Prompt \/ AnswerPrompt \/ ReloadPage
    \/ HandleAnswer
    \/ TechnologyChanges

AgentSpec == AgentInit /\ [][AgentNext]_agentVars

-----------------------------------------------------------------------------
(* Properties. *)

\* An answer reaches the request its prompt was shown for, however late it is
\* and whatever BlueZ has asked or cancelled since.
AnswersOwnRequest == \A g \in given : g.prompted = g.reached

Rejected(r) == replies[r] # <<>> /\ Head(replies[r]) = "Rejected"

\* A request the agent takes is kept under one tag until it is answered, and then
\* it is answered once and no longer kept: prompts answered twice, lost by a
\* reload or answered while there is no technology neither lose nor repeat a
\* reply.  One it rejects is never kept, so that no answer of the page adds to
\* the two replies that went out at once.
EachRequestOnce ==
    \A r \in 1..Len(requests) :
        LET kept == {d \in delayed : d.request = r}
        IN  IF Rejected(r) THEN kept = {} /\ Len(replies[r]) = 2
            ELSE Len(replies[r]) + Cardinality(kept) = 1

\* The requests the agent takes: BlueZ gets one reply to each, by an answer of
\* the page, and what is kept stays until then (OneReply).  Those it rejects
\* count as not asked, since they get two.
RequestsWaiting == {d.request : d \in delayed}
RepliesToTaken  == [r \in RequestIds |-> IF Rejected(r) THEN 0 ELSE Len(replies[r])]

Asked == INSTANCE OneReply WITH Asks <- RequestIds, waiting <- RequestsWaiting,
                                answers <- RepliesToTaken

RequestsPromise == Asked!OneReplySpec

\* agent.cpp:225 says of DisplayPasskey: "An empty reply should be returned."
\* That is of the requests the agent takes: one it rejects gets an error as well.
DisplayAnsweredEmpty ==
    \A r \in 1..Len(requests) :
        requests[r] = "display" /\ ~Rejected(r) => replies[r] \in {<<>>, <<"empty">>}
=============================================================================
