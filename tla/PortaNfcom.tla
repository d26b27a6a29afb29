----------------------------- MODULE PortaNfcom ------------------------------
(***************************************************************************)
(* The NFCom port as the jobs of the emission share it: each method waits  *)
(* for a slot of the rate limiter (lib/rate-limit.ts, wrapWithRateLimit),  *)
(* then uses the one token the process keeps (nfcom.repository.ts).        *)
(*                                                                         *)
(* A call of the port is named by a constant and made once.  The limiter's *)
(* `calls` is the set of the calls that hold an entry, with their          *)
(* timestamps in inicio: release() removes the first entry of the same     *)
(* timestamp, and two such entries are interchangeable.  pc[c]:            *)
(*   fora, espera  not made; in acquire(), which polls tryAcquire()        *)
(*   token         about to look at tokenCache                             *)
(*   auth          client.auth is under way                                *)
(*   recebendo     the gateway issued a token, its answer is on its way    *)
(*   post          client.emitir or client.consultaLista is under way      *)
(*   ok, recusada  the gateway served it; answered 401                     *)
(*   fim, erro     the method returned; it threw                           *)
(* Time is counted in ticks.  The detail of what an emission does with the *)
(* answer is in module EmissaoNota.                                        *)
(***************************************************************************)
EXTENDS Integers, FiniteSets

CONSTANTS
  Chamadas,     \* calls of the port
  Emitir,       \* those that call emitirNFCom; the others call consultarLista
  MaxPorJanela, \* maxPerSec
  Janela,       \* windowMs, in ticks
  Ttl,          \* ttlMs, in ticks
  MaxTempo,     \* bound on the clock
  MaxFalhas,    \* bound on the calls that fail and the tokens revoked, together
  Nenhum        \* tokenCache is null

ASSUME PortaAssumption ==
  /\ IsFiniteSet(Chamadas) /\ Emitir \subseteq Chamadas
  /\ MaxPorJanela \in Nat /\ Janela \in Nat /\ Ttl \in Nat
  /\ MaxTempo \in Nat /\ MaxFalhas \in Nat
  /\ Nenhum \notin [token : Nat, expira : Nat]

VARIABLES
  agora,        \* Date.now()
  entradas,     \* the calls with an entry in `calls`
  inicio,       \* when each call got its slot
  pc,
  vez,          \* which POST of the call this is
  token,        \* the token each call holds
  cache,        \* tokenCache
  emitidos,     \* how many tokens the gateway has issued: 1, 2, ...
  validos,      \* those it still accepts
  falhas,
  invalidados   \* history: tokens with which the first POST of an emission was
                \* answered 401, upon which it invalidates the cache

vars == <<agora, entradas, inicio, pc, vez, token, cache, emitidos, validos, falhas, invalidados>>
limitador == <<agora, entradas, inicio>>
gateway == <<emitidos, validos>>

EmVoo == {"token", "auth", "recebendo", "post", "ok", "recusada"}

Init ==
  /\ agora = 0 /\ entradas = {} /\ inicio = [c \in Chamadas |-> 0]
  /\ pc = [c \in Chamadas |-> "fora"] /\ vez = [c \in Chamadas |-> 1]
  /\ token = [c \in Chamadas |-> 0] /\ cache = Nenhum
  /\ emitidos = 0 /\ validos = {} /\ falhas = 0 /\ invalidados = {}

Ir(c, lugar) == pc' = [pc EXCEPT ![c] = lugar]
ComToken(c, t) == token' = [token EXCEPT ![c] = t]

-----------------------------------------------------------------------------
(* The limiter.                                                            *)

\* prune: entries older than the window go.
Podadas == {c \in entradas : inicio[c] >= agora - Janela}

\* A job calls a method of the port.
Chamar(c) ==
  /\ pc[c] = "fora" /\ Ir(c, "espera")
  /\ UNCHANGED <<limitador, vez, token, cache, gateway, falhas, invalidados>>

\* Mutant: a slot too many.
AdquirirUmAMais(c) ==
  /\ pc[c] = "espera"
  /\ Cardinality(Podadas) <= MaxPorJanela
  /\ entradas' = Podadas \cup {c}
  /\ inicio' = [inicio EXCEPT ![c] = agora]
  /\ Ir(c, "token")
  /\ UNCHANGED <<agora, vez, token, cache, gateway, falhas, invalidados>>

\* A tryAcquire of the poll that finds room; one that does not changes nothing a
\* later one would not.
Adquirir(c) ==
  /\ pc[c] = "espera"
  /\ Cardinality(Podadas) < MaxPorJanela
  /\ entradas' = Podadas \cup {c}
  /\ inicio' = [inicio EXCEPT ![c] = agora]
  /\ Ir(c, "token")
  /\ UNCHANGED <<agora, vez, token, cache, gateway, falhas, invalidados>>

Esquecer(c) == ComToken(c, 0) /\ vez' = [vez EXCEPT ![c] = 1] /\ inicio' = [inicio EXCEPT ![c] = 0]

\* Mutant: the slot of a call that throws is not released.
TerminarSemFinally(c, lugar) ==
  /\ Ir(c, lugar) /\ Esquecer(c)
  /\ entradas' = IF lugar = "erro" THEN entradas ELSE entradas \ {c}

\* The method settles, in error or not, and the proxy releases; what the call held
\* is gone with it.
Terminar(c, lugar) == Ir(c, lugar) /\ Esquecer(c) /\ entradas' = entradas \ {c}

-----------------------------------------------------------------------------
(* The token.                                                              *)

\* obterToken: the cache, or an authentication.
ObterToken(c) ==
  /\ pc[c] = "token"
  /\ IF cache # Nenhum /\ agora < cache.expira
     THEN ComToken(c, cache.token) /\ Ir(c, "post")
     ELSE Ir(c, "auth") /\ UNCHANGED token
  /\ UNCHANGED <<limitador, vez, cache, gateway, falhas, invalidados>>

\* External: POST /api/auth issues a token.
GatewayAutentica(c) ==
  /\ pc[c] = "auth"
  /\ emitidos' = emitidos + 1
  /\ validos' = validos \cup {emitidos + 1}
  /\ ComToken(c, emitidos + 1) /\ Ir(c, "recebendo")
  /\ UNCHANGED <<limitador, vez, cache, falhas, invalidados>>

\* Its answer arrives: kept for twelve hours from now, whatever the cache holds by
\* then, and the request goes out with it.
ReceberToken(c) ==
  /\ pc[c] = "recebendo"
  /\ cache' = [token |-> token[c], expira |-> agora + Ttl]
  /\ Ir(c, "post")
  /\ UNCHANGED <<limitador, vez, token, gateway, falhas, invalidados>>

\* External: the gateway serves a request or answers 401.
GatewayResponde(c) ==
  /\ pc[c] = "post"
  /\ Ir(c, IF token[c] \in validos THEN "ok" ELSE "recusada")
  /\ UNCHANGED <<limitador, vez, token, cache, gateway, falhas, invalidados>>

Receber(c) ==
  /\ pc[c] = "ok"
  /\ Terminar(c, "fim")
  /\ UNCHANGED <<agora, cache, gateway, falhas, invalidados>>

\* Mutant: the job authenticates again, the cache keeps the refused token meanwhile.
ReautenticarSemInvalidar(c) ==
  /\ pc[c] = "recusada" /\ c \in Emitir /\ vez[c] = 1
  /\ invalidados' = invalidados \cup {token[c]}
  /\ vez' = [vez EXCEPT ![c] = 2]
  /\ Ir(c, "auth")
  /\ UNCHANGED <<limitador, token, cache, gateway, falhas>>

\* emitirComRetry, the first 401: invalidarToken and obterToken in one go.  The token
\* dropped may be one another job has just renewed.
Reautenticar(c) ==
  /\ pc[c] = "recusada" /\ c \in Emitir /\ vez[c] = 1
  /\ invalidados' = invalidados \cup {token[c]}
  /\ cache' = Nenhum
  /\ vez' = [vez EXCEPT ![c] = 2]
  /\ Ir(c, "auth")
  /\ UNCHANGED <<limitador, token, gateway, falhas>>

\* The second 401, and any 401 of consultarLista, goes to the caller; the cache stays.
Desistir(c) ==
  /\ pc[c] = "recusada" /\ (c \notin Emitir \/ vez[c] = 2)
  /\ Terminar(c, "erro")
  /\ UNCHANGED <<agora, cache, gateway, falhas, invalidados>>

\* A request times out, or fails otherwise, whether or not the gateway served it.
Falhar(c) ==
  /\ pc[c] \in EmVoo \ {"token"} /\ falhas < MaxFalhas
  /\ falhas' = falhas + 1
  /\ Terminar(c, "erro")
  /\ UNCHANGED <<agora, cache, gateway, invalidados>>

\* External: the gateway expires a token, or another session takes its place.
Revogar ==
  /\ falhas < MaxFalhas /\ falhas' = falhas + 1
  /\ \E t \in validos : validos' = validos \ {t}
  /\ UNCHANGED <<limitador, pc, vez, token, cache, emitidos, invalidados>>

Passar ==
  /\ agora < MaxTempo /\ agora' = agora + 1
  /\ UNCHANGED <<entradas, inicio, pc, vez, token, cache, gateway, falhas, invalidados>>

Passo(c) ==
  \/ Chamar(c) \/ Adquirir(c) \/ ObterToken(c) \/ GatewayAutentica(c) \/ ReceberToken(c)
  \/ GatewayResponde(c) \/ Receber(c) \/ Reautenticar(c) \/ Desistir(c) \/ Falhar(c)

Next == (\E c \in Chamadas : Passo(c)) \/ Revogar \/ Passar

Spec == Init /\ [][Next]_vars

-----------------------------------------------------------------------------
(* Properties.                                                             *)

\* The types, and that only a call under way holds an entry of the limiter: the
\* finally of the proxy gives every slot back.
TypeOK ==
  /\ agora \in Nat /\ falhas \in Nat /\ emitidos \in Nat
  /\ inicio \in [Chamadas -> Nat]
  /\ pc \in [Chamadas -> EmVoo \cup {"fora", "espera", "fim", "erro"}]
  /\ vez \in [Chamadas -> 1 .. 2]
  /\ token \in [Chamadas -> 0 .. emitidos]
  /\ cache \in [token : 1 .. emitidos, expira : Nat] \cup {Nenhum}
  /\ validos \subseteq 1 .. emitidos /\ invalidados \subseteq 0 .. emitidos
  /\ entradas \subseteq {c \in Chamadas : pc[c] \in EmVoo}

\* At most maxPerSec of the calls that got their slot within the last window are
\* under way, however the calls that ended gave theirs back.
LimiteEmVoo ==
  Cardinality({c \in Chamadas : pc[c] \in EmVoo /\ inicio[c] >= agora - Janela})
    <= MaxPorJanela

\* Once the first POST of an emission was answered 401 no later call takes that token
\* from the cache: its invalidation is not undone by the jobs that authenticate at the
\* same time and write the cache when their own answers come.  Of a second 401, and of
\* a query's, it says nothing.
TokenInvalidadoNaoVolta == cache # Nenhum => cache.token \notin invalidados

\* SPEC-0001 case 9, of every 401: whoever is refused leaves its token out of the cache.
RecusadoSaiDoCache ==
  [][\A c \in Chamadas :
       pc[c] = "recusada" /\ pc'[c] # "recusada" /\ falhas' = falhas =>
         cache' = Nenhum \/ cache'.token # token[c]]_vars
=============================================================================
