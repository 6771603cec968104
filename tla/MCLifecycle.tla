---------------------------- MODULE MCLifecycle ----------------------------
(* Lifecycle on small instances. *)
EXTENDS Lifecycle

Both == <<"public", "internal">>

Meta(answer, issuer, uri, endpoint) ==
    [answer |-> answer, issuer |-> issuer, uri |-> uri, endpoint |-> endpoint]

Sound == Meta("ok", "configured", "u1", "set")
Moved == Meta("ok", "configured", "u2", "set")
Down == Meta("down", "configured", "u1", "set")

\* Sound metadata, an outage, and three ways to be wrong.
AllMetadata ==
    {Sound, Moved, Down, Meta("garbage", "configured", "u1", "set"),
     Meta("ok", "other", "u1", "set"), Meta("ok", "configured", "u1", "none")}

SoundMetadata == {Sound, Moved, Down}
=============================================================================
