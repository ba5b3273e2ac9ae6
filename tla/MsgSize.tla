------------------------------ MODULE MsgSize ------------------------------
(***************************************************************************)
(* The layout of a message (package msg): what msg.Encrypt writes, packet  *)
(* by packet, and how msg.Decrypt reads it back.  All messages have the    *)
(* same size, whatever they carry: newHeader pads every field of variable  *)
(* length, Encrypt pads the content.  Only lengths are modelled; the key   *)
(* material is that of module Session.                                     *)
(*                                                                         *)
(* A JSON value is given by its length and by the number of quotes in it,  *)
(* because the UID message of the sender is JSON inside a JSON string: each *)
(* of its quotes is escaped and takes one byte more.                       *)
(***************************************************************************)
EXTENDS Integers, Sequences, FiniteSets, FiniteSetsExt

CONSTANTS Identities,   \* the sender identities: records [len, domain]
          MsgCounts,    \* values of MSGCOUNT of the sender's UID message
          NymLengths,   \* lengths of the nym address given to Encrypt
          Counters,     \* values of SenderSessionCount, SenderMessageCount
          Lengths       \* lengths of the content

VARIABLES args,     \* the arguments of the last call of Encrypt
          packets,  \* the message it wrote, or <<>>
          result    \* what Encrypt or Decrypt returned

vars == <<args, packets, result>>

-----------------------------------------------------------------------------
(* JSON *)

(* The decimal digits of n. *)
Decimal[n \in Nat] == IF n < 10 THEN 1 ELSE 1 + Decimal[n \div 10]

JStr(n) == [len |-> n + 2, quotes |-> 2]
JNum(n) == [len |-> Decimal[n], quotes |-> 0]
JNull   == [len |-> 4, quotes |-> 0]
JArr(v) == [len |-> v.len + 2, quotes |-> v.quotes]

(* A JSON text as a JSON string. *)
JText(v) == [len |-> v.len + v.quotes + 2, quotes |-> 2]

(* An object with the given sequence of names and values.                   *)
JObj(f) ==
  [len |-> 1 + MapThenSumSet(LAMBDA i : Len(f[i][1]) + 4 + f[i][2].len, DOMAIN f),
   quotes |-> MapThenSumSet(LAMBDA i : 2 + f[i][2].quotes, DOMAIN f)]

-----------------------------------------------------------------------------
(* UID messages and headers *)

DefaultCiphersuite == JStr(51)
SHA512base64       == JStr(88)
lastEntry          == JStr(204)

KeyEntry(function) ==
  JObj(<< <<"CIPHERSUITE", DefaultCiphersuite>>, <<"FUNCTION", JStr(function)>>,
          <<"HASH", SHA512base64>>, <<"PUBKEY", JStr(44)>> >>)

ECDHE25519 == KeyEntry(10)
ED25519    == KeyEntry(7)

(* Message.JSON() of a UID message as uid.Create and Message.Update make it: *)
(* no escrow key, USERSIGNATURE from the second message on.                 *)
SenderUID(a) ==
  LET content == JObj(<<
        <<"VERSION", JStr(3)>>, <<"MSGCOUNT", JNum(a.msgcount)>>,
        <<"NOTAFTER", JNum(1500000000)>>, <<"NOTBEFORE", JNum(0)>>,
        <<"MIXADDRESS", JStr(0)>>, <<"NYMADDRESS", JStr(0)>>,
        <<"IDENTITY", JStr(a.from.len)>>, <<"SIGKEY", ED25519>>,
        <<"PUBKEYS", JArr(ECDHE25519)>>, <<"SIGESCROW", JNull>>,
        <<"LASTENTRY", lastEntry>>, <<"REPOURIS", JArr(JStr(a.from.domain))>>,
        <<"PREFERENCES", JObj(<< <<"FORWARDSEC", JStr(6)>>,
                                 <<"CIPHERSUITES", JArr(DefaultCiphersuite)>> >>)>>,
        <<"CHAINLINK", JNull>> >>)
  IN  JObj(<< <<"UIDContent", content>>, <<"ESCROWSIGNATURE", JStr(0)>>,
              <<"USERSIGNATURE", JStr(IF a.msgcount = 0 THEN 0 ELSE 88)>>,
              <<"SELFSIGNATURE", SHA512base64>>, <<"LINKAUTHORITY", JStr(0)>> >>)

wiggleRoom     == 1316
MaxIdentity    == 254     \* identity.MaxLen
MaxNymAddress  == 1568
MaxUIDMessage  == 2004
lengthKeyEntry == 247     \* length.KeyEntryECDHE25519
lengthNil      == 4

(* digits.Count, as far as TLC's integers go; faulty variant: a power of    *)
(* ten has one digit less.                                                  *)
CountBelow(u) == 1 + Cardinality({k \in 1 .. 9 : 10 ^ k < u})

Count(u) == 1 + Cardinality({k \in 1 .. 9 : u >= 10 ^ k})

(* The length of the padding.                                                *)
padLen(a) ==
  wiggleRoom + (MaxIdentity - a.from.len)
  + (IF a.next THEN 0 ELSE lengthKeyEntry - lengthNil)
  + (IF a.seen THEN 0 ELSE lengthKeyEntry - lengthNil)
  + (MaxNymAddress - a.nym) + (20 - Count(0))
  + (20 - Count(a.sessionCount)) + (20 - Count(a.messageCount))
  + (MaxUIDMessage - SenderUID(a).len)

(* padding.Generate: more than 32 bytes are cut from whole AES blocks.      *)
Generate(n) == IF n <= 32 THEN n ELSE Min({n, (1 + n \div 16) * 16})

(* The hex digits of Padding, one cut off if their number is odd.           *)
Padding(n) == 2 * Generate((n \div 2) + (n % 2)) - (n % 2)

Header(a) ==
  JObj(<< <<"Ciphersuite", DefaultCiphersuite>>,
          <<"RecipientPubHash", SHA512base64>>,
          <<"RecipientTempHash", SHA512base64>>,
          <<"SenderIdentity", JStr(a.from.len)>>,
          <<"SenderSessionPub", ECDHE25519>>,
          <<"SenderIdentityPubHash", SHA512base64>>,
          <<"SenderIdentityPub", ECDHE25519>>,
          <<"NextSenderSessionPub", IF a.next THEN ECDHE25519 ELSE JNull>>,
          <<"NextRecipientSessionPubSeen", IF a.seen THEN ECDHE25519 ELSE JNull>>,
          <<"NymAddress", JStr(a.nym)>>, <<"MaxDelay", JNum(0)>>,
          <<"SenderSessionCount", JNum(a.sessionCount)>>,
          <<"SenderMessageCount", JNum(a.messageCount)>>,
          <<"SenderUID", JText(SenderUID(a))>>,
          <<"SenderLastKeychainHash", lastEntry>>,
          <<"Status", JNum(a.status)>>, <<"Padding", JStr(Padding(padLen(a)))>> >>)

(* The errors of newHeader. *)
HeaderFits(a) ==
  /\ a.from.len <= MaxIdentity
  /\ a.nym <= MaxNymAddress
  /\ SenderUID(a).len <= MaxUIDMessage

lengthEncryptedHeader == 7168

(* box.Seal adds 16 bytes. *)
EncryptedHeader(a) == Header(a).len + 16

-----------------------------------------------------------------------------
(* Packets: an outer header of 7 bytes, Type, PLen (uint16) and PacketCount, *)
(* and the inner bytes; in an encrypted packet these are inner headers of 5 *)
(* bytes, Type, PLen, More and Skip, each with its content.                 *)

EncodedMsgSize   == 65536
UnencodedMsgSize == (EncodedMsgSize \div 4) * 3
innerHeaderSize  == 5
encryptedPacketSize == 12
signatureSize    == 76
MaxContentLength == UnencodedMsgSize - 73 - 7201 - 23 - encryptedPacketSize
                    - signatureSize - innerHeaderSize - 71

Inner(type, len) == [type |-> type, PLen |-> len % 65536, len |-> len]

InnerSize(inner) ==
  MapThenSumSet(LAMBDA i : innerHeaderSize + inner[i].len, DOMAIN inner)

Outer(type, count, len, inner) ==
  [type |-> type, count |-> count, PLen |-> len % 65536, len |-> len,
   inner |-> inner]

OuterEncrypted(count, inner) == Outer("encrypted", count, InnerSize(inner), inner)

(* StatusReset and StatusError messages are empty. *)
Content(a) == IF a.status = 0 THEN a.content ELSE 0

(* The first encrypted packet. *)
Data(a) ==
  Inner(IF a.signed THEN {"data", "sign"} ELSE {"data"}, Content(a))

(* The second one: a signature and padding, or padding only.                 *)
Signature(a) ==
  IF a.signed
  THEN <<Inner({"signature"}, 64),
         Inner({"padding"}, Generate(MaxContentLength - Content(a)))>>
  ELSE <<Inner({"padding"},
               Generate(MaxContentLength + signatureSize - encryptedPacketSize
                        + innerHeaderSize - Content(a)))>>

Message(a) ==
  << Outer("preHeader", 0, 2 + 2 + 28 + 2 + 32, <<>>),
     Outer("encryptedHeader", 1, 24 + 2 + EncryptedHeader(a), <<>>),
     Outer("cryptoSetup", 2, 16, <<>>),
     OuterEncrypted(3, <<Data(a)>>),
     OuterEncrypted(4, Signature(a)),
     Outer("hmac", 5, 64, <<>>) >>

Size(m) == MapThenSumSet(LAMBDA i : 7 + m[i].len, DOMAIN m)

(* base64 without line breaks. *)
EncodedSize(m) == 4 * ((Size(m) + 2) \div 3)

-----------------------------------------------------------------------------
Args == [from : Identities, msgcount : MsgCounts, next : BOOLEAN, seen : BOOLEAN,
         nym : NymLengths, sessionCount : Counters, messageCount : Counters,
         status : {0, 1}, signed : BOOLEAN, content : Lengths]

None == [error |-> "none", content |-> -1, sig |-> FALSE]
Error(e) == [None EXCEPT !.error = e]

Init ==
  /\ args \in Args
  /\ packets = <<>>
  /\ result = None

(* msg.Encrypt, with its errors in the order it meets them. *)
Encrypt ==
  LET m == Message(args)
      outcome ==
        IF ~ HeaderFits(args) THEN "header"
        ELSE IF EncryptedHeader(args) % 65536 # lengthEncryptedHeader
        THEN "header length"
        ELSE IF Content(args) > MaxContentLength THEN "content"
        ELSE IF EncodedSize(m) # EncodedMsgSize THEN "size"
        ELSE "none"
  IN  /\ packets = <<>>
      /\ result = None
      /\ packets' = IF outcome = "none" THEN m ELSE <<>>
      /\ result' = IF outcome = "none" THEN None ELSE Error(outcome)
      /\ UNCHANGED args

(* readOuterHeader and the checks of type and count that follow it: the     *)
(* PLen bytes it reads are the packet only if PLen did not wrap.            *)
Reads(k, type) ==
  /\ packets[k].type = type
  /\ packets[k].count = k - 1
  /\ packets[k].PLen = packets[k].len

(* readInnerHeader: the first inner header of the packet. *)
ReadsInner(k, type) ==
  LET ih == packets[k].inner[1]
  IN  type \in ih.type /\ ih.PLen = ih.len

(* msg.Decrypt, with ReadFirstOuterHeader before it. *)
Decrypt ==
  LET signed == "sign" \in packets[4].inner[1].type
      second == IF signed THEN "signature" ELSE "padding"
      ok == /\ Reads(1, "preHeader") /\ Reads(2, "encryptedHeader")
            /\ Reads(3, "cryptoSetup")
            /\ Reads(4, "encrypted") /\ ReadsInner(4, "data")
            /\ Reads(5, "encrypted") /\ ReadsInner(5, second)
            /\ (signed => packets[5].inner[1].len = 64)
            /\ Reads(6, "hmac")
  IN  /\ packets # <<>>
      /\ packets' = <<>>
      /\ result' = IF ok THEN [error |-> "none", sig |-> signed,
                               content |-> packets[4].inner[1].len]
                   ELSE Error("packet")
      /\ UNCHANGED args

Next == Encrypt \/ Decrypt

Spec == Init /\ [][Next]_vars

-----------------------------------------------------------------------------
(* Properties *)

(* header.go: the length of the encrypted header must always be the same in *)
(* all messages, and all messages have the same size.  The two checks that  *)
(* guard this, in newHeaderPacket and at the end of Encrypt, never fail:    *)
(* Encrypt refuses a message only for a nym address or a content that is    *)
(* too long, and every message written has EncodedMsgSize bytes, whichever  *)
(* keys, counters, identity, signature, status and content it carries.      *)
SameSize ==
  /\ result.error \notin {"header length", "size"}
  /\ result.error = "header" => args.nym > MaxNymAddress
  /\ packets # <<>> => EncodedSize(packets) = EncodedMsgSize

(* What Encrypt wrote Decrypt reads: the content has its length, no length  *)
(* field wrapped, and a signature is returned exactly if one was made.      *)
Delivered ==
  /\ result.error # "packet"
  /\ result.content >= 0 =>
       /\ result.content = Content(args)
       /\ result.sig = args.signed
====
