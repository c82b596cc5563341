---------------------------- MODULE MCReflector ----------------------------
(* Scopes of the streams for model checking Reflector.                     *)
EXTENDS Reflector

CONSTANTS a, b, c

\* One stream for the whole cluster.
OneScope == <<{a, b}>>

\* Two namespaces with an object each.
TwoNamespaces == <<{a}, {b}>>

\* Two namespaces, one of them with an object of another shard.
ShardedNamespaces == <<{a, b}, {c}>>
=============================================================================
