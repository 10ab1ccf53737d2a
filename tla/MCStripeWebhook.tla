--------------------------- MODULE MCStripeWebhook ---------------------------
\* Instances of StripeWebhook for TLC.
EXTENDS StripeWebhook, TLC

CONSTANTS i1, i2

\* A subscription, and two invoices of its customer.
MCKind == <<"subscription", "invoice", "invoice">>
MCInvoiceOf == <<0, 1, 2>>
=============================================================================
