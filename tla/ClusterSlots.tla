---------------------------- MODULE ClusterSlots ----------------------------
(***************************************************************************)
(* pkg/bullmq/cluster.go and the keys of keys.go: which Redis Cluster slot *)
(* a key belongs to, and whether all keys of a queue share one, which the  *)
(* scripts that take several keys depend on.  CalculateCRC16 itself is in  *)
(* Crc16.tla; here it is any function of the bytes that are hashed.        *)
(*                                                                         *)
(* A string is a sequence of bytes.  The fixed parts of a key ("bull:" and *)
(* what follows the queue name) are one byte each: all that counts is that *)
(* they differ and hold no brace.                                          *)
(***************************************************************************)
EXTENDS Integers, Sequences, FiniteSetsExt

CONSTANT Hash(_)   \* CalculateCRC16

Byte  == 0..255
Open  == 123     \* {
Close == 125     \* }
Bull  == 98      \* stands for "bull:"

RedisClusterSlots == 16384

At(key, b)    == { i \in DOMAIN key : key[i] = b }
After(S, n)   == { i \in S : i > n }

\* Mutation: a tag of one byte does not count.
HashKeyLong(key) ==
  LET start == Min(At(key, Open))
      ends  == After(At(key, Close), start)
      end   == Min(ends)
  IN IF At(key, Open) # {} /\ ends # {} /\ end > start + 2
     THEN SubSeq(key, start + 1, end - 1) ELSE key
\* What is hashed: the text between the first { and the first } after it, if there is any.
HashKey(key) ==
  LET start == Min(At(key, Open))
      ends  == After(At(key, Close), start)
      end   == Min(ends)
  IN IF At(key, Open) # {} /\ ends # {} /\ end > start + 1
     THEN SubSeq(key, start + 1, end - 1) ELSE key

GetClusterSlot(key) == Hash(HashKey(key)) % RedisClusterSlots

\* The first result.
ValidateHashTags(keys) == \A k, l \in keys : GetClusterSlot(k) = GetClusterSlot(l)

\* One ClusterInfo per slot; HashTag is that of a key of the group, the first.
AnalyzeClusterKeys(keys) ==
  { [slot |-> n, keys |-> { k \in keys : GetClusterSlot(k) = n }] : n \in { GetClusterSlot(k) : k \in keys } }

-----------------------------------------------------------------------------
\* KeyBuilder: Wait, Prioritized, Delayed, Active, Completed, Failed, Events and Meta, and
\* the Job, Lock and Logs keys of one id.
Suffixes == 1..11

KeyOf(queueName, useHashTags, suffix) ==
  IF useHashTags THEN <<Bull, Open>> \o queueName \o <<Close, suffix>>
                 ELSE <<Bull>> \o queueName \o <<suffix>>

QueueKeys(queueName, useHashTags) == { KeyOf(queueName, useHashTags, s) : s \in Suffixes }

\* validateClusterCompatibility, of six of these keys.
Warns(queueName, useHashTags) ==
  ~ValidateHashTags({ KeyOf(queueName, useHashTags, s) : s \in {1, 4, 2, 8, 9, 10} })
=============================================================================
