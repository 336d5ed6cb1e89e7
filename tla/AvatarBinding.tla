--------------------------- MODULE AvatarBinding ----------------------------
(***************************************************************************)
(* What selecting an avatar promises, without messages: an avatar is       *)
(* claimed by one session at a time, comes to life on one Game, for the    *)
(* account that claimed it, and is confirmed only where it lives.          *)
(*                                                                         *)
(* claim   claim[a]: who has selected avatar a, for which Game             *)
(* home    home[a]: the Game avatar a lives on and its account             *)
(***************************************************************************)
CONSTANTS Avatars, Sessions, Accounts, Games, NoClaim, NoHome

VARIABLES claim, home

vars == <<claim, home>>

Claims == [session : Sessions, account : Accounts, game : Games, confirmed : BOOLEAN]

Init ==
    /\ claim = [a \in Avatars |-> NoClaim]
    /\ home = [a \in Avatars |-> NoHome]

Claim(a) ==
    /\ claim[a] = NoClaim /\ home[a] = NoHome
    /\ \E c \in Claims : ~c.confirmed /\ claim' = [claim EXCEPT ![a] = c]
    /\ UNCHANGED home

\* The avatar comes to life where the claim says.
Settle(a) ==
    /\ claim[a] # NoClaim /\ ~claim[a].confirmed /\ home[a] = NoHome
    /\ home' = [home EXCEPT ![a] = [game |-> claim[a].game, account |-> claim[a].account]]
    /\ UNCHANGED claim

Confirm(a) ==
    /\ claim[a] # NoClaim /\ ~claim[a].confirmed
    /\ home[a] = [game |-> claim[a].game, account |-> claim[a].account]
    /\ claim' = [claim EXCEPT ![a].confirmed = TRUE]
    /\ UNCHANGED home

\* A claim that came to nothing is given up.
Release(a) ==
    /\ claim[a] # NoClaim /\ ~claim[a].confirmed /\ home[a] = NoHome
    /\ claim' = [claim EXCEPT ![a] = NoClaim]
    /\ UNCHANGED home

Next == \E a \in Avatars : Claim(a) \/ Settle(a) \/ Confirm(a) \/ Release(a)

Spec == Init /\ [][Next]_vars

=============================================================================
