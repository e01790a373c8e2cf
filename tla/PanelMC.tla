------------------------------ MODULE PanelMC ------------------------------
(* A small instance of Panel: two hours of two minutes, requests that turn *)
(* the repetition off and requests past the last minute, two portions.     *)
EXTENDS Panel

CadaMC == <<1, 0>>
PedidosMC == {<<0, 0>>, <<1, 2>>}
=============================================================================
