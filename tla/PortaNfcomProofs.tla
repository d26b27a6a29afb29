-------------------------- MODULE PortaNfcomProofs ---------------------------
(***************************************************************************)
(* Proofs about PortaNfcom, for any number of calls, any limit and any     *)
(* lifetime of the token: the types, the limit on the calls under way, and *)
(* that a token an emission invalidated never comes back to the cache.     *)
(***************************************************************************)
EXTENDS PortaNfcom, FiniteSetTheorems, TLAPS

(* The strengthening.  A call under way that is younger than the window    *)
(* still has its entry, and there are never more entries than slots.       *)
Contadas ==
  /\ {c \in Chamadas : pc[c] \in EmVoo /\ inicio[c] >= agora - Janela} \subseteq entradas
  /\ Cardinality(entradas) <= MaxPorJanela

(* A token on its way from the gateway is new: no call holds it, the cache *)
(* does not, and no emission invalidated it.                               *)
TokenNovo ==
  \A c \in Chamadas : pc[c] = "recebendo" =>
    /\ token[c] >= 1 /\ token[c] \notin invalidados
    /\ cache # Nenhum => cache.token # token[c]
    /\ \A d \in Chamadas : d # c => token[d] # token[c]

IInv == TypeOK /\ Contadas /\ TokenNovo /\ TokenInvalidadoNaoVolta

-----------------------------------------------------------------------------

\* The calls are finitely many, and so are those of any kind.
LEMMA Finitas ==
  ASSUME NEW S, S \subseteq Chamadas
  PROVE  IsFiniteSet(S) /\ Cardinality(S) \in Nat
BY FS_Subset, FS_CardinalityType, PortaAssumption

\* The port starts with no call, no entry and no token.
LEMMA Inicio == Init => IInv
<1> SUFFICES ASSUME Init PROVE IInv
  OBVIOUS
<1>1. TypeOK
  BY PortaAssumption DEF Init, TypeOK, EmVoo
<1>2. Contadas
  <2>1. Cardinality(entradas) <= MaxPorJanela
    BY FS_EmptySet, PortaAssumption DEF Init
  <2> QED BY <2>1 DEF Contadas, Init, EmVoo
<1>3. TokenNovo /\ TokenInvalidadoNaoVolta
  BY DEF Init, TokenNovo, TokenInvalidadoNaoVolta
<1> QED BY <1>1, <1>2, <1>3 DEF IInv

(* What every action leaves well typed.                                    *)
LEMMA PreservaTipos == IInv /\ [Next]_vars => TypeOK'
<1> SUFFICES ASSUME IInv, [Next]_vars PROVE TypeOK'
  OBVIOUS
<1> USE PortaAssumption
<1>1. CASE UNCHANGED vars
  BY <1>1 DEF IInv, TypeOK, vars
<1>2. ASSUME NEW c \in Chamadas, Chamar(c) PROVE TypeOK'
  BY <1>2 DEF IInv, TypeOK, Chamar, Ir, limitador, gateway, EmVoo
<1>3. ASSUME NEW c \in Chamadas, Adquirir(c) PROVE TypeOK'
  BY <1>3 DEF IInv, TypeOK, Adquirir, Podadas, Ir, gateway, EmVoo
<1>4. ASSUME NEW c \in Chamadas, ObterToken(c) PROVE TypeOK'
  BY <1>4 DEF IInv, TypeOK, ObterToken, ComToken, Ir, limitador, gateway, EmVoo
<1>5. ASSUME NEW c \in Chamadas, GatewayAutentica(c) PROVE TypeOK'
  BY <1>5 DEF IInv, TypeOK, GatewayAutentica, ComToken, Ir, limitador, EmVoo
<1>6. ASSUME NEW c \in Chamadas, ReceberToken(c) PROVE TypeOK'
  BY <1>6 DEF IInv, TypeOK, TokenNovo, ReceberToken, Ir, limitador, gateway, EmVoo
<1>7. ASSUME NEW c \in Chamadas, GatewayResponde(c) PROVE TypeOK'
  BY <1>7 DEF IInv, TypeOK, GatewayResponde, Ir, limitador, gateway, EmVoo
<1>8. ASSUME NEW c \in Chamadas, Receber(c) PROVE TypeOK'
  BY <1>8 DEF IInv, TypeOK, Receber, Terminar, Esquecer, ComToken, Ir, gateway, EmVoo
<1>9. ASSUME NEW c \in Chamadas, Reautenticar(c) PROVE TypeOK'
  <2>1. vez' \in [Chamadas -> 1 .. 2] /\ invalidados' \subseteq 0 .. emitidos
    BY <1>9 DEF IInv, TypeOK, Reautenticar
  <2>2. pc' \in [Chamadas -> EmVoo \cup {"fora", "espera", "fim", "erro"}]
    BY <1>9 DEF IInv, TypeOK, Reautenticar, Ir, EmVoo
  <2>3. entradas' \subseteq {d \in Chamadas : pc'[d] \in EmVoo}
    BY <1>9 DEF IInv, TypeOK, Reautenticar, Ir, limitador, EmVoo
  <2> QED BY <1>9, <2>1, <2>2, <2>3 DEF IInv, TypeOK, Reautenticar, limitador, gateway
<1>10. ASSUME NEW c \in Chamadas, Desistir(c) PROVE TypeOK'
  BY <1>10 DEF IInv, TypeOK, Desistir, Terminar, Esquecer, ComToken, Ir, gateway, EmVoo
<1>11. ASSUME NEW c \in Chamadas, Falhar(c) PROVE TypeOK'
  BY <1>11 DEF IInv, TypeOK, Falhar, Terminar, Esquecer, ComToken, Ir, gateway, EmVoo
<1>12. CASE Revogar
  BY <1>12 DEF IInv, TypeOK, Revogar, limitador, EmVoo
<1>13. CASE Passar
  BY <1>13 DEF IInv, TypeOK, Passar, gateway, EmVoo
<1> QED
  BY <1>1, <1>2, <1>3, <1>4, <1>5, <1>6, <1>7, <1>8, <1>9, <1>10, <1>11, <1>12, <1>13
     DEF Next, Passo

(* Nothing but Adquirir adds an entry, and it does so below the limit;     *)
(* only prune and the end of a call remove one.                            *)
LEMMA PreservaContadas == IInv /\ [Next]_vars => Contadas'
<1> SUFFICES ASSUME IInv, [Next]_vars PROVE Contadas'
  OBVIOUS
<1> USE PortaAssumption
<1>t. TypeOK /\ Contadas /\ entradas \subseteq Chamadas
  BY DEF IInv, TypeOK
<1>f. IsFiniteSet(entradas) /\ Cardinality(entradas) \in Nat
  BY <1>t, Finitas
<1>1. ASSUME NEW c \in Chamadas, Adquirir(c) PROVE Contadas'
  <2>1. Podadas \subseteq Chamadas
    BY <1>t DEF Podadas
  <2>2. IsFiniteSet(Podadas) /\ Cardinality(Podadas) \in Nat
    BY <2>1, Finitas
  <2>3. Cardinality(Podadas \cup {c}) <= MaxPorJanela
    <3>1. Cardinality(Podadas \cup {c}) \in {Cardinality(Podadas), Cardinality(Podadas) + 1}
      <4>1. CASE c \in Podadas
        BY <2>2, <4>1, FS_AddElement
      <4>2. CASE c \notin Podadas
        BY <2>2, <4>2, FS_AddElement
      <4> QED BY <4>1, <4>2
    <3>2. Cardinality(Podadas) < MaxPorJanela
      BY <1>1 DEF Adquirir
    <3> QED BY <2>2, <3>1, <3>2
  <2>4. ASSUME NEW d \in Chamadas, pc'[d] \in EmVoo, inicio'[d] >= agora' - Janela
        PROVE  d \in entradas'
    <3>1. CASE d = c
      BY <1>1, <3>1 DEF Adquirir
    <3>2. CASE d # c
      <4>1. pc[d] \in EmVoo /\ inicio[d] >= agora - Janela
        BY <1>1, <1>t, <2>4, <3>2 DEF Adquirir, Ir, TypeOK
      <4> QED BY <1>1, <1>t, <4>1 DEF Adquirir, Contadas, Podadas
    <3> QED BY <3>1, <3>2
  <2> QED BY <1>1, <2>3, <2>4 DEF Adquirir, Contadas
<1>2. ASSUME NEW c \in Chamadas, NEW lugar \in {"fim", "erro"},
             Terminar(c, lugar), UNCHANGED agora
      PROVE  Contadas'
  <2>1. Cardinality(entradas \ {c}) <= MaxPorJanela
    <3>1. Cardinality(entradas \ {c}) <= Cardinality(entradas)
      BY <1>f, FS_Subset
    <3>2. Cardinality(entradas \ {c}) \in Nat
      BY <1>t, Finitas
    <3> QED BY <1>f, <1>t, <3>1, <3>2 DEF Contadas
  <2>2. ASSUME NEW d \in Chamadas, pc'[d] \in EmVoo, inicio'[d] >= agora' - Janela
        PROVE  d \in entradas'
    <3>1. d # c /\ pc[d] \in EmVoo /\ inicio[d] >= agora - Janela
      BY <1>2, <1>t, <2>2 DEF Terminar, Esquecer, Ir, EmVoo, TypeOK
    <3> QED BY <1>2, <1>t, <3>1 DEF Terminar, Contadas
  <2> QED BY <1>2, <2>1, <2>2 DEF Terminar, Contadas
<1>3. CASE Passar
  <2>1. ASSUME NEW d \in Chamadas, pc'[d] \in EmVoo, inicio'[d] >= agora' - Janela
        PROVE  d \in entradas'
    BY <1>3, <1>t, <2>1 DEF Passar, Contadas, TypeOK
  <2> QED BY <1>3, <1>t, <2>1 DEF Passar, Contadas
<1>4. ASSUME NEW c \in Chamadas, NEW lugar,
             pc[c] \in EmVoo \/ lugar \notin EmVoo, Ir(c, lugar),
             UNCHANGED <<entradas, inicio, agora>>
      PROVE  Contadas'
  <2>1. ASSUME NEW d \in Chamadas, pc'[d] \in EmVoo, inicio'[d] >= agora' - Janela
        PROVE  d \in entradas'
    BY <1>4, <1>t, <2>1 DEF Ir, Contadas, TypeOK
  <2> QED BY <1>4, <1>t, <2>1 DEF Contadas
<1>5. CASE UNCHANGED <<pc, entradas, inicio, agora>>
  BY <1>5, <1>t DEF Contadas
<1>6. ASSUME NEW c \in Chamadas, Passo(c) PROVE Contadas'
  <2>1. CASE Chamar(c)
    BY <1>4, <2>1 DEF Chamar, limitador, EmVoo
  <2>2. CASE ObterToken(c)
    BY <1>4, <2>2 DEF ObterToken, limitador, EmVoo
  <2>3. CASE GatewayAutentica(c)
    BY <1>4, <2>3 DEF GatewayAutentica, limitador, EmVoo
  <2>4. CASE ReceberToken(c)
    BY <1>4, <2>4 DEF ReceberToken, limitador, EmVoo
  <2>5. CASE GatewayResponde(c)
    BY <1>4, <2>5 DEF GatewayResponde, limitador, EmVoo
  <2>6. CASE Reautenticar(c)
    BY <1>4, <2>6 DEF Reautenticar, limitador, EmVoo
  <2>7. CASE Receber(c) \/ Desistir(c) \/ Falhar(c)
    BY <1>2, <2>7 DEF Receber, Desistir, Falhar
  <2> QED BY <1>1, <1>6, <2>1, <2>2, <2>3, <2>4, <2>5, <2>6, <2>7 DEF Passo
<1>7. CASE Revogar
  BY <1>5, <1>7 DEF Revogar, limitador
<1>8. CASE UNCHANGED vars
  BY <1>5, <1>8 DEF vars
<1> QED BY <1>3, <1>6, <1>7, <1>8 DEF Next

(* Only the gateway makes tokens, one at a time and above all others.      *)
LEMMA PreservaToken == IInv /\ [Next]_vars => TokenNovo' /\ TokenInvalidadoNaoVolta'
<1> SUFFICES ASSUME IInv, [Next]_vars PROVE TokenNovo' /\ TokenInvalidadoNaoVolta'
  OBVIOUS
<1> USE PortaAssumption DEF TokenNovo, TokenInvalidadoNaoVolta
<1>t. TypeOK /\ TokenNovo /\ TokenInvalidadoNaoVolta
  BY DEF IInv
<1>1. CASE UNCHANGED vars
  BY <1>1, <1>t DEF vars
<1>2. ASSUME NEW c \in Chamadas, Chamar(c) \/ Adquirir(c) \/ GatewayResponde(c)
      PROVE  TokenNovo' /\ TokenInvalidadoNaoVolta'
  BY <1>2, <1>t DEF TypeOK, Chamar, Adquirir, GatewayResponde, Ir
<1>3. ASSUME NEW c \in Chamadas, ObterToken(c) PROVE TokenNovo' /\ TokenInvalidadoNaoVolta'
  BY <1>3, <1>t DEF TypeOK, ObterToken, ComToken, Ir
<1>4. ASSUME NEW c \in Chamadas, GatewayAutentica(c)
      PROVE  TokenNovo' /\ TokenInvalidadoNaoVolta'
  <2>1. \A d \in Chamadas : token[d] <= emitidos
    BY <1>t DEF TypeOK
  <2>2. emitidos + 1 \notin invalidados /\ (cache # Nenhum => cache.token # emitidos + 1)
    BY <1>t DEF TypeOK
  <2>3. emitidos + 1 >= 1 /\ \A d \in Chamadas : token[d] # emitidos + 1
    BY <1>t, <2>1 DEF TypeOK
  <2> QED BY <1>4, <1>t, <2>2, <2>3 DEF TypeOK, GatewayAutentica, ComToken, Ir
<1>5. ASSUME NEW c \in Chamadas, ReceberToken(c) PROVE TokenNovo' /\ TokenInvalidadoNaoVolta'
  BY <1>5, <1>t DEF TypeOK, ReceberToken, Ir
<1>6. ASSUME NEW c \in Chamadas, Reautenticar(c) PROVE TokenNovo' /\ TokenInvalidadoNaoVolta'
  BY <1>6, <1>t DEF TypeOK, Reautenticar, Ir
<1>7. ASSUME NEW c \in Chamadas, Receber(c) \/ Desistir(c) \/ Falhar(c)
      PROVE  TokenNovo' /\ TokenInvalidadoNaoVolta'
  <2>1. PICK lugar \in {"fim", "erro"} : Ir(c, lugar) /\ ComToken(c, 0)
    BY <1>7 DEF Receber, Desistir, Falhar, Terminar, Esquecer
  <2>2. UNCHANGED <<cache, invalidados>>
    BY <1>7 DEF Receber, Desistir, Falhar
  <2> QED BY <1>t, <2>1, <2>2 DEF TypeOK, Ir, ComToken
<1>8. CASE Revogar \/ Passar
  BY <1>8, <1>t DEF Revogar, Passar
<1> QED BY <1>1, <1>2, <1>3, <1>4, <1>5, <1>6, <1>7, <1>8 DEF Next, Passo

\* The invariant holds of every reachable state.
LEMMA Indutivo == Spec => []IInv
<1>1. IInv /\ [Next]_vars => IInv'
  BY PreservaTipos, PreservaContadas, PreservaToken DEF IInv
<1> QED BY Inicio, <1>1, PTL DEF Spec

-----------------------------------------------------------------------------

(* The types, among them that a call that ended, in error or not, holds no *)
(* entry of the limiter (the finally of wrapWithRateLimit).                *)
THEOREM TiposCorretos == Spec => []TypeOK
<1>1. IInv => TypeOK
  BY DEF IInv
<1> QED BY Indutivo, <1>1, PTL

(* At most maxPerSec of the calls started within the window are under way, *)
(* for any number of jobs (rate-limit.ts).                                 *)
THEOREM LimiteVale == Spec => []LimiteEmVoo
<1>1. IInv => LimiteEmVoo
  <2> SUFFICES ASSUME IInv PROVE LimiteEmVoo
    OBVIOUS
  <2> DEFINE Jovens == {c \in Chamadas : pc[c] \in EmVoo /\ inicio[c] >= agora - Janela}
  <2>1. Jovens \subseteq entradas /\ Cardinality(entradas) <= MaxPorJanela
    BY DEF IInv, Contadas
  <2>2. entradas \subseteq Chamadas
    BY DEF IInv, TypeOK
  <2>3. IsFiniteSet(entradas) /\ Cardinality(entradas) \in Nat /\ Cardinality(Jovens) \in Nat
    BY <2>1, <2>2, Finitas
  <2>4. Cardinality(Jovens) <= Cardinality(entradas)
    BY <2>1, <2>3, FS_Subset
  <2> QED BY <2>1, <2>3, <2>4, PortaAssumption DEF LimiteEmVoo
<1> QED BY Indutivo, <1>1, PTL

(* The token of an emission's first 401 is never in the cache again, for   *)
(* any interleaving of jobs that renew it (emitirComRetry).  That of a     *)
(* second 401 may stay there: the code does not invalidate it.             *)
THEOREM TokenInvalidadoFica == Spec => []TokenInvalidadoNaoVolta
<1>1. IInv => TokenInvalidadoNaoVolta
  BY DEF IInv
<1> QED BY Indutivo, <1>1, PTL
=============================================================================
