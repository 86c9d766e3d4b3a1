--------------------------- MODULE TwoFactorAuth ---------------------------
(***************************************************************************)
(* The second step of a login (TwoFactorAuth.cpp): a token is mailed to    *)
(* the user and remembered in tokenMng until it is entered.  All tokens    *)
(* share one start time, that of the last SendTFA.  This module has no     *)
(* behaviour of its own: the access control server's thread calls it.      *)
(*                                                                         *)
(* A token is random and is written as its number: sent[t] is the receiver *)
(* of token t.  Sending the mail is external and may fail.                 *)
(***************************************************************************)
EXTENDS Integers, Sequences, SequencesExt

CONSTANTS
  Emails,
  MaxTokens   \* bound: tokens mailed between two starts of the program

ASSUME MaxTokensAssumption == MaxTokens \in Nat

VARIABLES
  tokenMng,
  late,   \* more than 120 seconds have passed since start
  sent,   \* history: the receiver of each token mailed
  used    \* history: the tokens that were accepted

tfaVars == <<tokenMng, late, sent, used>>

TfaTypeOK ==
  /\ sent \in Seq(Emails)
  /\ used \subseteq DOMAIN sent
  /\ tokenMng \in Seq([to : Emails, token : DOMAIN sent])
  /\ late \in BOOLEAN

TfaInit == tokenMng = <<>> /\ late = TRUE /\ sent = <<>> /\ used = {}

\* The mail is sent and the token remembered, or neither, as for an empty address;
\* start is set anyway.
SendTFA(e) ==
  /\ late' = FALSE
  /\ \/ /\ Len(sent) < MaxTokens /\ e \in Emails
        /\ sent' = Append(sent, e)
        /\ tokenMng' = Append(tokenMng, [to |-> e, token |-> Len(sent) + 1])
     \/ UNCHANGED <<sent, tokenMng>>
  /\ UNCHANGED used

\* Mutants: the newest token counts; the receiver is not compared.
CheckTokenNewest(e, t) ==
  LET i == SelectLastInSeq(tokenMng, LAMBDA x : x.to = e)
  IN ~ late /\ i # 0 /\ tokenMng[i].token = t
     /\ tokenMng' = RemoveAt(tokenMng, i) /\ used' = used \cup {t} /\ UNCHANGED <<late, sent>>

CheckTokenOfAnyone(e, t) ==
  LET i == SelectInSeq(tokenMng, LAMBDA x : x.token = t)
  IN ~ late /\ i # 0
     /\ tokenMng' = RemoveAt(tokenMng, i) /\ used' = used \cup {t} /\ UNCHANGED <<late, sent>>

\* CheckToken, where it succeeds: it compares with the first token it finds for
\* the receiver, and with no other.  Elsewhere it changes nothing.
CheckToken(e, t) ==
  LET i == SelectInSeq(tokenMng, LAMBDA x : x.to = e)
  IN /\ ~ late /\ i # 0 /\ tokenMng[i].token = t
     /\ tokenMng' = RemoveAt(tokenMng, i)
     /\ used' = used \cup {t}
     /\ UNCHANGED <<late, sent>>

TimePasses == late' = TRUE /\ UNCHANGED <<tokenMng, sent, used>>
-----------------------------------------------------------------------------
\* A user's tokens are accepted in the order in which they were mailed, and each
\* at most once: a newer token admits nobody while an older one, expired or not,
\* has not been entered.
TokensOnceInOrder ==
  \A i \in DOMAIN tokenMng : \A t \in used :
    sent[t] = tokenMng[i].to => t < tokenMng[i].token
=============================================================================
