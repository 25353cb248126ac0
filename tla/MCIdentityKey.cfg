SPECIFICATION Spec
CONSTANTS
  LenRadix = 2
  NONCE_LEN = 2
  SESSION_CHALLENGE_DOMAIN <- SessionTag
  SIGN_CALLBACK_DOMAIN <- SignTag
  USER_SIGN_DOMAIN <- UserTag
  None = None
  Nonces <- MCNonces
  Dids <- MCDids
  PayloadTypes <- MCTypes
  Payloads <- MCPayloads
  UserMessages <- MCUserMessages
  MaxSigned = 2
INVARIANTS
  TypeOK
  NoSigningOracle
